---- MODULE Spec2Model ----
(***************************************************************************)
(* A model of the GlobalISel CombinerHelper                                *)
(* (llvm/lib/CodeGen/GlobalISel/CombinerHelper.cpp).                       *)
(*                                                                         *)
(* The machine function is a list of instructions in layout order; every   *)
(* instruction carries its block number.  The helper's rules are operators *)
(* that thread a record S (the function, the register attributes, the      *)
(* builder's insertion point and the log of what the observer and the      *)
(* function were told), one operator per C++ function, and one action per  *)
(* entry point a driver calls.                                             *)
(***************************************************************************)
EXTENDS Integers, Sequences, FiniteSets, TLC

VARIABLES
    code,       \* the function: Seq of instructions, in layout order
    regTy,      \* MRI.getType: register -> LLT
    regBank,    \* MRI.getRegClassOrRegBank: register -> 0 (none) or a bank
    nextReg,    \* next virtual register number MRI hands out
    nextId,     \* identity of the next MachineInstr that is created
    insPt,      \* Builder's insertion point [bb, before]
    log,        \* what the last entry point did, in order (events)
    tried,      \* the matchers the last entry point ran, with their answers
    ret,        \* what the last entry point returned
    rule,       \* the last entry point called
    target,     \* id of the instruction it was called on
    info,       \* the match-info the last matcher filled in
    mPre,       \* the instruction list when the last matcher was entered
    mPost,      \* the instruction list when the last matcher returned
    LI,         \* is a LegalizerInfo supplied
    legal,      \* the legality oracle: set of <<opcode, result bits>> it calls Legal
    MDT,        \* is a MachineDominatorTree supplied
    ForceLegalIndexing, \* the cl::opt force-legal-indexing
    TLI,        \* does the target's TargetLowering call indexed accesses legal
    TGT,        \* the target's policy for lowering memory operations
    MFI,        \* MachineFrameInfo: frame index -> [align, fixed]
    KB,         \* GISelKnownBits: [present, Zero: register -> bits known zero]
    ubPred,     \* what this build does where isPredecessor runs into llvm_unreachable
    crashed,    \* the process has aborted
    steps       \* entry points called so far

vars == <<code, regTy, regBank, nextReg, nextId, insPt, log, tried, ret, rule,
          target, info, mPre, mPost, LI, legal, MDT, ForceLegalIndexing, TLI,
          TGT, MFI, KB, ubPred, crashed, steps>>

-----------------------------------------------------------------------------
\* Bounds of the model.

\* users of the loaded register in the initial functions
MaxUses == 2
\* entry points the driver calls in one behaviour
MaxSteps == 2

-----------------------------------------------------------------------------
\* Low-level types (LLT).

LLTNone == [k |-> "none", bits |-> 0, n |-> 0]
Scalar(b) == [k |-> "s", bits |-> b, n |-> 0]
Ptr0 == [k |-> "p", bits |-> 64, n |-> 0]
Vector(n, b) == [k |-> "v", bits |-> b, n |-> n]

isValid(t) == t.k # "none"
isScalar(t) == t.k = "s"
isVector(t) == t.k = "v"
getSizeInBits(t) == IF t.k = "v" THEN t.n * t.bits ELSE t.bits
getScalarType(t) == IF t.k = "v" THEN Scalar(t.bits) ELSE t
getNumElements(t) == t.n

Pow2(n) == 2 ^ n
\* bit i of the unsigned number v
Bit(v, i) == (v \div Pow2(i)) % 2

RECURSIVE isPowerOf2_32(_)
isPowerOf2_32(x) ==
    IF x <= 0 THEN FALSE
    ELSE IF x = 1 THEN TRUE
    ELSE IF x % 2 = 1 THEN FALSE
    ELSE isPowerOf2_32(x \div 2)

-----------------------------------------------------------------------------
\* Instructions and the function.

MkInst(id, opc, defs, uses, bb) ==
    [id |-> id, opc |-> opc, defs |-> defs, uses |-> uses, bb |-> bb,
     pred |-> "", mbbs |-> <<>>, imm |-> 0, mmo |-> 0, mask |-> <<>>,
     vol |-> FALSE, atomic |-> FALSE, align |-> 0, salign |-> 0, off |-> 0]

Ev(k, x) == [ev |-> k, arg |-> x]
Emit(S, e) == [S EXCEPT !.log = Append(@, e)]

SeqToSet(s) == {s[i] : i \in DOMAIN s}
HasInst(S, id) == \E i \in DOMAIN S.code : S.code[i].id = id
IdxOf(S, id) == CHOOSE i \in DOMAIN S.code : S.code[i].id = id
InstOf(S, id) == S.code[IdxOf(S, id)]

InsertAt(s, i, x) == SubSeq(s, 1, i - 1) \o <<x>> \o SubSeq(s, i, Len(s))

\* index of the end of block bb in layout order
EndOfBlock(S, bb) ==
    LET before == {i \in DOMAIN S.code : S.code[i].bb <= bb}
    IN  IF before = {} THEN 1
        ELSE (CHOOSE i \in before : \A j \in before : j <= i) + 1

\* list position an insertion point stands for
PosOf(S, pt) ==
    IF pt.before # 0 /\ HasInst(S, pt.before) THEN IdxOf(S, pt.before)
    ELSE EndOfBlock(S, pt.bb)

\* id of the instruction that follows id in its block, 0 at the block's end
NextInBlock(S, id) ==
    LET i == IdxOf(S, id)
    IN  IF i < Len(S.code) /\ S.code[i + 1].bb = S.code[i].bb
        THEN S.code[i + 1].id ELSE 0

getFirstNonPHI(S, bb) ==
    LET c == {i \in DOMAIN S.code : S.code[i].bb = bb /\ S.code[i].opc # "PHI"}
    IN  IF c = {} THEN 0
        ELSE S.code[CHOOSE i \in c : \A j \in c : i <= j].id

\* MachineInstr::eraseFromParent: unlinks the instruction.  An insertion
\* point that stood before it moves to its successor.
eraseFromParent(S, id) ==
    LET nxt == NextInBlock(S, id)
        bb == InstOf(S, id).bb
        S1 == [S EXCEPT !.code = SelectSeq(@, LAMBDA x : x.id # id)]
        S2 == IF S.ins.before = id
              THEN [S1 EXCEPT !.ins = [bb |-> bb, before |-> nxt]] ELSE S1
    IN  Emit(S2, Ev("unlink", id))

\* MachineIRBuilder::setInsertPt / setInstr
setInsertPt(S, bb, before) == [S EXCEPT !.ins = [bb |-> bb, before |-> before]]
setInstr(S, id) == setInsertPt(S, InstOf(S, id).bb, id)

\* MachineIRBuilder::buildInstr at the insertion point
buildInstr(S, opc, defs, uses) ==
    LET mi == MkInst(S.nextId, opc, defs, uses, S.ins.bb)
    IN  Emit([S EXCEPT !.code = InsertAt(@, PosOf(S, S.ins), mi),
                       !.nextId = @ + 1],
             Ev("insert", S.nextId))

LastBuilt(S) == S.nextId - 1

\* MachineRegisterInfo::createGenericVirtualRegister
createGenericVirtualRegister(S, ty) ==
    [S EXCEPT !.ty = (S.nextReg :> ty) @@ @,
              !.bank = (S.nextReg :> 0) @@ @,
              !.nextReg = @ + 1]

\* MachineRegisterInfo::cloneVirtualRegister: same type, same bank
cloneVirtualRegister(S, r) ==
    [S EXCEPT !.ty = (S.nextReg :> S.ty[r]) @@ @,
              !.bank = (S.nextReg :> S.bank[r]) @@ @,
              !.nextReg = @ + 1]

LastReg(S) == S.nextReg - 1

buildCopy(S, dst, src) == buildInstr(S, "COPY", <<dst>>, <<src>>)
buildTrunc(S, dst, src) == buildInstr(S, "G_TRUNC", <<dst>>, <<src>>)
buildUndefReg(S, dst) == buildInstr(S, "G_IMPLICIT_DEF", <<dst>>, <<>>)
\* buildUndef(LLT): a fresh register of that type, defined by G_IMPLICIT_DEF
buildUndefTy(S, ty) ==
    LET S1 == createGenericVirtualRegister(S, ty)
    IN  buildUndefReg(S1, LastReg(S1))

\* Use-def chains.
DefsOf(S, r) == {i \in DOMAIN S.code : \E k \in DOMAIN S.code[i].defs : S.code[i].defs[k] = r}
UsersOf(S, r) == {i \in DOMAIN S.code : \E k \in DOMAIN S.code[i].uses : S.code[i].uses[k] = r}

RECURSIVE SetToSortedSeq(_)
SetToSortedSeq(s) ==
    IF s = {} THEN <<>>
    ELSE LET m == CHOOSE x \in s : \A y \in s : x <= y
         IN  <<m>> \o SetToSortedSeq(s \ {m})

\* MRI.getVRegDef / getUniqueVRegDef: id of the defining instruction, 0 if none
getVRegDef(S, r) ==
    IF DefsOf(S, r) = {} THEN 0
    ELSE S.code[CHOOSE i \in DefsOf(S, r) : \A j \in DefsOf(S, r) : i <= j].id

\* MRI.use_nodbg_instructions: ids of the using instructions, in layout order
use_nodbg_instructions(S, r) ==
    LET idx == SetToSortedSeq(UsersOf(S, r))
    IN  [k \in DOMAIN idx |-> S.code[idx[k]].id]

\* MRI.use_operands: <<instruction id, operand index>> of every use operand
RECURSIVE OperandsIn(_, _, _)
OperandsIn(mi, r, k) ==
    IF k > Len(mi.uses) THEN <<>>
    ELSE (IF mi.uses[k] = r THEN <<(<<mi.id, k>>)>> ELSE <<>>) \o OperandsIn(mi, r, k + 1)

RECURSIVE use_operands_from(_, _, _)
use_operands_from(S, r, i) ==
    IF i > Len(S.code) THEN <<>>
    ELSE OperandsIn(S.code[i], r, 1) \o use_operands_from(S, r, i + 1)

use_operands(S, r) == use_operands_from(S, r, 1)

hasOneNonDBGUse(S, r) == Len(use_operands(S, r)) = 1

\* getOpcodeDef: the definition of r, looking through COPYs, if it has opcode opc
RECURSIVE getDefIgnoringCopies(_, _)
getDefIgnoringCopies(S, r) ==
    LET d == getVRegDef(S, r)
    IN  IF d = 0 THEN 0
        ELSE IF InstOf(S, d).opc = "COPY" /\ S.ty[InstOf(S, d).uses[1]] = S.ty[r]
                  /\ InstOf(S, d).uses[1] # r
             THEN getDefIgnoringCopies(S, InstOf(S, d).uses[1])
             ELSE d

getOpcodeDef(S, opc, r) ==
    LET d == getDefIgnoringCopies(S, r)
    IN  IF d # 0 /\ InstOf(S, d).opc = opc THEN d ELSE 0

-----------------------------------------------------------------------------
\* Register attributes and register replacement.

Opcode(S, id) == InstOf(S, id).opc
Def0(S, id) == InstOf(S, id).defs[1]

\* canReplaceReg(DstReg, SrcReg, MRI): same type, and DstReg carries no bank
\* or the same bank as SrcReg
canReplaceReg(S, DstReg, SrcReg) ==
    /\ S.ty[DstReg] = S.ty[SrcReg]
    /\ (S.bank[DstReg] = 0 \/ S.bank[DstReg] = S.bank[SrcReg])

\* MRI.constrainRegAttrs(Reg, ConstrainingReg): can Reg take over the
\* constraints (type, bank) of ConstrainingReg
constrainRegAttrsOk(S, Reg, ConstrainingReg) ==
    /\ ~(isValid(S.ty[Reg]) /\ isValid(S.ty[ConstrainingReg])
           /\ S.ty[Reg] # S.ty[ConstrainingReg])
    /\ (S.bank[ConstrainingReg] = 0 \/ S.bank[Reg] = 0
           \/ S.bank[Reg] = S.bank[ConstrainingReg])

\* ... and the merge itself, when it succeeds
constrainRegAttrs(S, Reg, ConstrainingReg) ==
    [S EXCEPT !.ty[Reg] = IF isValid(S.ty[ConstrainingReg])
                          THEN S.ty[ConstrainingReg] ELSE @,
              !.bank[Reg] = IF S.bank[ConstrainingReg] # 0
                            THEN S.bank[ConstrainingReg] ELSE @]

ReplaceInSeq(s, a, b) == [k \in DOMAIN s |-> IF s[k] = a THEN b ELSE s[k]]

\* MRI.replaceRegWith(FromReg, ToReg): every operand naming FromReg, def or
\* use, is rewritten to ToReg
MRI_replaceRegWith(S, FromReg, ToReg) ==
    LET touched == SetToSortedSeq(DefsOf(S, FromReg) \cup UsersOf(S, FromReg))
    IN  [S EXCEPT !.code = [i \in DOMAIN S.code |->
                              [S.code[i] EXCEPT !.defs = ReplaceInSeq(@, FromReg, ToReg),
                                                !.uses = ReplaceInSeq(@, FromReg, ToReg)]],
                  !.log = @ \o [k \in DOMAIN touched |->
                                  Ev("replaceReg", S.code[touched[k]].id)]]

\* CombinerHelper::replaceRegWith
replaceRegWith(S, FromReg, ToReg) ==
    LET S1 == Emit(S, Ev("changingAllUsesOfReg", FromReg))
        S2 == IF constrainRegAttrsOk(S1, ToReg, FromReg)
              THEN MRI_replaceRegWith(constrainRegAttrs(S1, ToReg, FromReg), FromReg, ToReg)
              ELSE buildCopy(S1, ToReg, FromReg)
    IN  Emit(S2, Ev("finishedChangingAllUsesOfReg", FromReg))

\* MachineOperand::setReg on use operand k / def operand k of instruction id
setUseReg(S, id, k, r) ==
    Emit([S EXCEPT !.code[IdxOf(S, id)].uses[k] = r], Ev("setReg", id))
setDefReg(S, id, k, r) ==
    Emit([S EXCEPT !.code[IdxOf(S, id)].defs[k] = r], Ev("setReg", id))
\* MachineInstr::setDesc
setDesc(S, id, opc) ==
    Emit([S EXCEPT !.code[IdxOf(S, id)].opc = opc], Ev("setDesc", id))
setPredicate(S, id, p) ==
    Emit([S EXCEPT !.code[IdxOf(S, id)].pred = p], Ev("setPredicate", id))
setMBB(S, id, k, bb) ==
    Emit([S EXCEPT !.code[IdxOf(S, id)].mbbs[k] = bb], Ev("setMBB", id))

\* A variant that forgets the "about to change" notification.
replaceRegOpWithUnannounced(S, id, k, ToReg) ==
    Emit(setUseReg(S, id, k, ToReg), Ev("changedInstr", id))

\* CombinerHelper::replaceRegOpWith
replaceRegOpWith(S, id, k, ToReg) ==
    LET S1 == Emit(S, Ev("changingInstr", id))
        S2 == setUseReg(S1, id, k, ToReg)
    IN  Emit(S2, Ev("changedInstr", id))

\* What an entry point hands back: the state, the boolean it returns, the
\* instruction list as its matcher left it, and the match-info.
Result(S, r, post, inf) == [S |-> S, ret |-> r, mPost |-> post, info |-> inf]
Tried(S, name, r) == [S EXCEPT !.tried = Append(@, [rule |-> name, res |-> r])]
NoInfo == [kind |-> "none"]

-----------------------------------------------------------------------------
\* Copy elimination.

matchCombineCopy(S, mi) ==
    IF Opcode(S, mi) # "COPY" THEN FALSE
    ELSE canReplaceReg(S, Def0(S, mi), InstOf(S, mi).uses[1])

applyCombineCopy(S, mi) ==
    LET DstReg == Def0(S, mi)
        SrcReg == InstOf(S, mi).uses[1]
    IN  replaceRegWith(eraseFromParent(S, mi), DstReg, SrcReg)

tryCombineCopy(S, mi) ==
    LET m == matchCombineCopy(S, mi)
        S1 == Tried(S, "copy", m)
    IN  IF m THEN Result(applyCombineCopy(S1, mi), TRUE, S.code, NoInfo)
        ELSE Result(S1, FALSE, S.code, NoInfo)

-----------------------------------------------------------------------------
\* Extending-load combine.

ExtOpcodes == {"G_SEXT", "G_ZEXT", "G_ANYEXT"}
LoadOpcodes == {"G_LOAD", "G_SEXTLOAD", "G_ZEXTLOAD"}

PreferredTuple(ty, opc, mi) == [Ty |-> ty, ExtendOpcode |-> opc, MI |-> mi]

\* A variant that prefers the wider candidate before looking at the kind.
ChooseWidestUse(CurrentUse, TyForCandidate, OpcodeForCandidate, MIForCandidate) ==
    IF ~isValid(CurrentUse.Ty)
         \/ getSizeInBits(TyForCandidate) > getSizeInBits(CurrentUse.Ty)
    THEN PreferredTuple(TyForCandidate, OpcodeForCandidate, MIForCandidate)
    ELSE CurrentUse

\* A variant without the rule that prefers a sign extend to a zero extend of
\* the same width.
ChooseWithoutSignRule(CurrentUse, TyForCandidate, OpcodeForCandidate, MIForCandidate) ==
    LET Candidate == PreferredTuple(TyForCandidate, OpcodeForCandidate, MIForCandidate)
    IN  IF ~isValid(CurrentUse.Ty)
        THEN IF CurrentUse.ExtendOpcode = OpcodeForCandidate
                  \/ CurrentUse.ExtendOpcode = "G_ANYEXT"
             THEN Candidate ELSE CurrentUse
        ELSE IF OpcodeForCandidate = "G_ANYEXT" /\ CurrentUse.ExtendOpcode # "G_ANYEXT"
        THEN CurrentUse
        ELSE IF CurrentUse.ExtendOpcode = "G_ANYEXT" /\ OpcodeForCandidate # "G_ANYEXT"
        THEN Candidate
        ELSE IF getSizeInBits(TyForCandidate) > getSizeInBits(CurrentUse.Ty)
        THEN Candidate
        ELSE CurrentUse

\* ChoosePreferredUse
ChoosePreferredUse(CurrentUse, TyForCandidate, OpcodeForCandidate, MIForCandidate) ==
    LET Candidate == PreferredTuple(TyForCandidate, OpcodeForCandidate, MIForCandidate)
    IN  IF ~isValid(CurrentUse.Ty)
        THEN IF CurrentUse.ExtendOpcode = OpcodeForCandidate
                  \/ CurrentUse.ExtendOpcode = "G_ANYEXT"
             THEN Candidate ELSE CurrentUse
        ELSE IF OpcodeForCandidate = "G_ANYEXT" /\ CurrentUse.ExtendOpcode # "G_ANYEXT"
        THEN CurrentUse
        ELSE IF CurrentUse.ExtendOpcode = "G_ANYEXT" /\ OpcodeForCandidate # "G_ANYEXT"
        THEN Candidate
        ELSE IF CurrentUse.Ty = TyForCandidate
                  /\ CurrentUse.ExtendOpcode = "G_SEXT" /\ OpcodeForCandidate = "G_ZEXT"
        THEN CurrentUse
        ELSE IF CurrentUse.Ty = TyForCandidate
                  /\ CurrentUse.ExtendOpcode = "G_ZEXT" /\ OpcodeForCandidate = "G_SEXT"
        THEN Candidate
        ELSE IF getSizeInBits(TyForCandidate) > getSizeInBits(CurrentUse.Ty)
        THEN Candidate
        ELSE CurrentUse

\* LI->getAction({Opcode, {UseTy, SrcTy}, {MMDesc}}).Action == Legal
\* (the pointer type of every load of the model is p0)
LegalAction(opc, useTy, memBits) == <<opc, getSizeInBits(useTy), memBits>> \in legal

\* the legality test of the use loop of matchCombineExtendingLoads
UseIsCandidate(S, mi, useMI) ==
    IF LI THEN LegalAction(Opcode(S, mi), S.ty[Def0(S, useMI)], InstOf(S, mi).mmo)
    ELSE TRUE

\* the loop over use_nodbg_instructions of matchCombineExtendingLoads
RECURSIVE PreferredOver(_, _, _, _, _)
PreferredOver(S, mi, users, i, Preferred) ==
    IF i > Len(users) THEN Preferred
    ELSE LET UseMI == users[i]
         IN  IF Opcode(S, UseMI) \in ExtOpcodes /\ UseIsCandidate(S, mi, UseMI)
             THEN PreferredOver(S, mi, users, i + 1,
                      ChoosePreferredUse(Preferred, S.ty[Def0(S, UseMI)],
                                         Opcode(S, UseMI), UseMI))
             ELSE PreferredOver(S, mi, users, i + 1, Preferred)

NoPreferred == PreferredTuple(LLTNone, "G_ANYEXT", 0)

\* CombinerHelper::matchCombineExtendingLoads: [ok, Preferred]
matchCombineExtendingLoads(S, mi) ==
    LET LoadValueTy == S.ty[Def0(S, mi)]
        PreferredOpcode == IF Opcode(S, mi) = "G_LOAD" THEN "G_ANYEXT"
                           ELSE IF Opcode(S, mi) = "G_SEXTLOAD" THEN "G_SEXT"
                           ELSE "G_ZEXT"
        Preferred == PreferredOver(S, mi, use_nodbg_instructions(S, Def0(S, mi)), 1,
                                   PreferredTuple(LLTNone, PreferredOpcode, 0))
    IN  IF Opcode(S, mi) \notin LoadOpcodes THEN [ok |-> FALSE, Preferred |-> NoPreferred]
        ELSE IF ~isScalar(LoadValueTy) THEN [ok |-> FALSE, Preferred |-> NoPreferred]
        ELSE IF getSizeInBits(LoadValueTy) < 8 THEN [ok |-> FALSE, Preferred |-> NoPreferred]
        ELSE IF ~isPowerOf2_32(getSizeInBits(LoadValueTy))
        THEN [ok |-> FALSE, Preferred |-> NoPreferred]
        ELSE [ok |-> Preferred.MI # 0, Preferred |-> Preferred]

\* A variant that takes the block of the PHI itself for a PHI operand.
InsertInsnsInUseBlock(S, DefMI, useId, useK) ==
    LET UseMI == InstOf(S, useId)
        InsertBB == UseMI.bb
    IN  IF InsertBB = InstOf(S, DefMI).bb
        THEN [bb |-> InsertBB, before |-> NextInBlock(S, DefMI)]
        ELSE [bb |-> InsertBB, before |-> getFirstNonPHI(S, InsertBB)]

\* InsertInsnsWithoutSideEffectsBeforeUse: the point the Inserter is called at
InsertInsnsWithoutSideEffectsBeforeUse(S, DefMI, useId, useK) ==
    LET UseMI == InstOf(S, useId)
        InsertBB == IF UseMI.opc = "PHI" THEN UseMI.mbbs[useK] ELSE UseMI.bb
    IN  IF InsertBB = InstOf(S, DefMI).bb
        THEN [bb |-> InsertBB, before |-> NextInBlock(S, DefMI)]
        ELSE [bb |-> InsertBB, before |-> getFirstNonPHI(S, InsertBB)]

\* the lambda InsertTruncAt of applyCombineExtendingLoads; em is EmittedInsns
InsertTruncAt(S, em, mi, ChosenDstReg, pt, useId, useK) ==
    IF pt.bb \in DOMAIN em
    THEN LET S1 == Emit(S, Ev("changingInstr", useId))
             S2 == setUseReg(S1, useId, useK, Def0(S, em[pt.bb]))
         IN  [S |-> Emit(S2, Ev("changedInstr", useId)), em |-> em]
    ELSE LET S1 == setInsertPt(S, pt.bb, pt.before)
             S2 == cloneVirtualRegister(S1, Def0(S, mi))
             NewDstReg == LastReg(S2)
             S3 == buildTrunc(S2, NewDstReg, ChosenDstReg)
         IN  [S |-> replaceRegOpWith(S3, useId, useK, NewDstReg),
              em |-> (pt.bb :> LastBuilt(S3)) @@ em]

\* the loop over Uses of applyCombineExtendingLoads
RECURSIVE RewriteUses(_, _, _, _, _, _, _)
RewriteUses(S, em, mi, Preferred, ChosenDstReg, Uses, i) ==
    IF i > Len(Uses) THEN S
    ELSE
      LET useId == Uses[i][1]
          useK == Uses[i][2]
          UseMI == InstOf(S, useId)
          UseDstReg == UseMI.defs[1]
          trunc == InsertTruncAt(S, em, mi, ChosenDstReg,
                       InsertInsnsWithoutSideEffectsBeforeUse(S, mi, useId, useK),
                       useId, useK)
      IN  IF UseMI.opc = Preferred.ExtendOpcode \/ UseMI.opc = "G_ANYEXT"
          THEN IF UseDstReg # ChosenDstReg
               THEN IF Preferred.Ty = S.ty[UseDstReg]
                    THEN LET S1 == replaceRegWith(S, UseDstReg, ChosenDstReg)
                             S2 == Emit(S1, Ev("erasingInstr", useId))
                         IN  RewriteUses(eraseFromParent(S2, useId), em, mi, Preferred,
                                         ChosenDstReg, Uses, i + 1)
                    ELSE IF getSizeInBits(Preferred.Ty) < getSizeInBits(S.ty[UseDstReg])
                    THEN RewriteUses(replaceRegOpWith(S, useId, 1, ChosenDstReg), em, mi,
                                     Preferred, ChosenDstReg, Uses, i + 1)
                    ELSE RewriteUses(trunc.S, trunc.em, mi, Preferred, ChosenDstReg,
                                     Uses, i + 1)
               ELSE LET S1 == Emit(S, Ev("erasingInstr", useId))
                    IN  RewriteUses(eraseFromParent(S1, useId), em, mi, Preferred,
                                    ChosenDstReg, Uses, i + 1)
          ELSE RewriteUses(trunc.S, trunc.em, mi, Preferred, ChosenDstReg, Uses, i + 1)

\* A variant that mixes up the two extending loads.
ExtLoadOpcodeSwapped(ext) ==
    IF ext = "G_SEXT" THEN "G_ZEXTLOAD"
    ELSE IF ext = "G_ZEXT" THEN "G_SEXTLOAD" ELSE "G_LOAD"

\* the opcode MI.setDesc gives the load
ExtLoadOpcode(ext) ==
    IF ext = "G_SEXT" THEN "G_SEXTLOAD"
    ELSE IF ext = "G_ZEXT" THEN "G_ZEXTLOAD" ELSE "G_LOAD"

\* CombinerHelper::applyCombineExtendingLoads
applyCombineExtendingLoads(S, mi, Preferred) ==
    LET ChosenDstReg == Def0(S, Preferred.MI)
        S1 == Emit(S, Ev("changingInstr", mi))
        S2 == setDesc(S1, mi, ExtLoadOpcode(Preferred.ExtendOpcode))
        Uses == use_operands(S2, Def0(S2, mi))
        S3 == RewriteUses(S2, <<>>, mi, Preferred, ChosenDstReg, Uses, 1)
        S4 == setDefReg(S3, mi, 1, ChosenDstReg)
    IN  Emit(S4, Ev("changedInstr", mi))

tryCombineExtendingLoads(S, mi) ==
    LET m == matchCombineExtendingLoads(S, mi)
        S1 == Tried(S, "extload", m.ok)
        inf == [kind |-> "extload", Preferred |-> m.Preferred]
    IN  IF m.ok THEN Result(applyCombineExtendingLoads(S1, mi, m.Preferred), TRUE, S.code, inf)
        ELSE Result(S1, FALSE, S.code, inf)

-----------------------------------------------------------------------------
\* Dominance.  Answers are "T", "F", or "X" when the process aborts.

FirstInBlock(S, bb) ==
    LET c == {i \in DOMAIN S.code : S.code[i].bb = bb}
    IN  S.code[CHOOSE i \in c : \A j \in c : i <= j].id

\* CombinerHelper::isPredecessor.  The return statement is the body of the
\* scanning loop: when the block's first instruction is neither DefMI nor
\* UseMI the first iteration returns (&*I == &DefMI), which is false; when it
\* is one of them the loop is not entered and control reaches
\* llvm_unreachable, whose outcome depends on the build.
isPredecessor(S, DefMI, UseMI) ==
    LET I == FirstInBlock(S, InstOf(S, DefMI).bb)
    IN  IF DefMI = UseMI THEN "F"
        ELSE IF I # DefMI /\ I # UseMI THEN (IF I = DefMI THEN "T" ELSE "F")
        ELSE IF I = DefMI THEN ubPred.def ELSE ubPred.use

\* MachineDominatorTree::dominates(const MachineInstr *, const MachineInstr *)
\* on straight-line layouts: block order across blocks, list order within one
MDT_dominates(S, A, B) ==
    IF InstOf(S, A).bb # InstOf(S, B).bb
    THEN (IF InstOf(S, A).bb < InstOf(S, B).bb THEN "T" ELSE "F")
    ELSE IF IdxOf(S, A) <= IdxOf(S, B) THEN "T" ELSE "F"

\* CombinerHelper::dominates
dominates(S, DefMI, UseMI) ==
    IF MDT THEN MDT_dominates(S, DefMI, UseMI)
    ELSE IF InstOf(S, DefMI).bb # InstOf(S, UseMI).bb THEN "F"
    ELSE isPredecessor(S, DefMI, UseMI)

-----------------------------------------------------------------------------
\* Indexed load/store formation.

\* MachineInstr::getOperand(k): explicit defs first, then the uses
Operand(S, id, k) == (InstOf(S, id).defs \o InstOf(S, id).uses)[k + 1]

MemOpcodes == LoadOpcodes \cup {"G_STORE"}

\* TargetLowering::isIndexingLegal: the target's answer, false by default
isIndexingLegal == TLI

Candidate(ok, Addr, Base, Offset) ==
    [ok |-> ok, Addr |-> Addr, Base |-> Base, Offset |-> Offset]

\* the inner loops "does MI dominate every user": "T", "F" or "X"
RECURSIVE DominatesAll(_, _, _, _)
DominatesAll(S, MI, users, i) ==
    IF i > Len(users) THEN "T"
    ELSE LET d == dominates(S, MI, users[i])
         IN  IF d = "T" THEN DominatesAll(S, MI, users, i + 1) ELSE d

\* the loop over the users of Base of findPostIndexCandidate
RECURSIVE PostIndexOver(_, _, _, _, _, _)
PostIndexOver(S, MI, Base, users, i, Offset) ==
    IF i > Len(users) THEN Candidate("F", 0, Base, Offset)
    ELSE
      LET Use == users[i]
          Off == Operand(S, Use, 2)
          OffsetDef == getVRegDef(S, Off)
          offDom == IF OffsetDef = 0 THEN "F" ELSE dominates(S, OffsetDef, MI)
          addrDom == DominatesAll(S, MI, use_nodbg_instructions(S, Operand(S, Use, 0)), 1)
      IN  IF Opcode(S, Use) # "G_PTR_ADD"
          THEN PostIndexOver(S, MI, Base, users, i + 1, Offset)
          ELSE IF ~ForceLegalIndexing /\ ~isIndexingLegal
          THEN PostIndexOver(S, MI, Base, users, i + 1, Off)
          ELSE IF offDom = "X" THEN Candidate("X", 0, Base, Off)
          ELSE IF offDom = "F" THEN PostIndexOver(S, MI, Base, users, i + 1, Off)
          ELSE IF addrDom = "X" THEN Candidate("X", 0, Base, Off)
          ELSE IF addrDom = "F" THEN PostIndexOver(S, MI, Base, users, i + 1, Off)
          ELSE Candidate("T", Operand(S, Use, 0), Base, Off)

\* CombinerHelper::findPostIndexCandidate
findPostIndexCandidate(S, MI) ==
    LET Base == Operand(S, MI, 1)
        BaseDef == getVRegDef(S, Base)
    IN  IF BaseDef # 0 /\ Opcode(S, BaseDef) = "G_FRAME_INDEX"
        THEN Candidate("F", 0, Base, 0)
        ELSE PostIndexOver(S, MI, Base, use_nodbg_instructions(S, Base), 1, 0)

\* A variant that wants the access to be the only use of the address.
findPreIndexOnlyUse(S, MI) ==
    LET Addr == Operand(S, MI, 1)
        AddrDef == getOpcodeDef(S, "G_PTR_ADD", Addr)
        Base == Operand(S, AddrDef, 1)
        Offset == Operand(S, AddrDef, 2)
        BaseDef == getDefIgnoringCopies(S, Base)
    IN  IF AddrDef = 0 \/ ~hasOneNonDBGUse(S, Addr) THEN Candidate("F", Addr, 0, 0)
        ELSE IF ~ForceLegalIndexing /\ ~isIndexingLegal
        THEN Candidate("F", Addr, Base, Offset)
        ELSE IF BaseDef # 0 /\ Opcode(S, BaseDef) = "G_FRAME_INDEX"
        THEN Candidate("F", Addr, Base, Offset)
        ELSE IF Opcode(S, MI) = "G_STORE" /\ Base = Operand(S, MI, 0)
        THEN Candidate("F", Addr, Base, Offset)
        ELSE IF Opcode(S, MI) = "G_STORE" /\ Operand(S, MI, 0) = Addr
        THEN Candidate("F", Addr, Base, Offset)
        ELSE Candidate(DominatesAll(S, MI, use_nodbg_instructions(S, Addr), 1),
                       Addr, Base, Offset)

\* CombinerHelper::findPreIndexCandidate
findPreIndexCandidate(S, MI) ==
    LET Addr == Operand(S, MI, 1)
        AddrDef == getOpcodeDef(S, "G_PTR_ADD", Addr)
        Base == Operand(S, AddrDef, 1)
        Offset == Operand(S, AddrDef, 2)
        BaseDef == getDefIgnoringCopies(S, Base)
    IN  IF AddrDef = 0 \/ hasOneNonDBGUse(S, Addr) THEN Candidate("F", Addr, 0, 0)
        ELSE IF ~ForceLegalIndexing /\ ~isIndexingLegal
        THEN Candidate("F", Addr, Base, Offset)
        ELSE IF BaseDef # 0 /\ Opcode(S, BaseDef) = "G_FRAME_INDEX"
        THEN Candidate("F", Addr, Base, Offset)
        ELSE IF Opcode(S, MI) = "G_STORE" /\ Base = Operand(S, MI, 0)
        THEN Candidate("F", Addr, Base, Offset)
        ELSE IF Opcode(S, MI) = "G_STORE" /\ Operand(S, MI, 0) = Addr
        THEN Candidate("F", Addr, Base, Offset)
        ELSE Candidate(DominatesAll(S, MI, use_nodbg_instructions(S, Addr), 1),
                       Addr, Base, Offset)

IndexedInfo(ok, IsPre, c) ==
    [kind |-> "indexed", ok |-> ok, IsPre |-> IsPre,
     Addr |-> c.Addr, Base |-> c.Base, Offset |-> c.Offset]

\* A variant without the test of the flag.
matchIndexedAlways(S, MI) ==
    LET pre == findPreIndexCandidate(S, MI)
        post == findPostIndexCandidate(S, MI)
    IN  IF Opcode(S, MI) \notin MemOpcodes
        THEN IndexedInfo("F", FALSE, Candidate("F", 0, 0, 0))
        ELSE IF pre.ok = "X" THEN IndexedInfo("X", FALSE, pre)
        ELSE IF pre.ok = "T" THEN IndexedInfo("T", TRUE, pre)
        ELSE IndexedInfo(post.ok, FALSE, post)

\* CombinerHelper::matchCombineIndexedLoadStore: ok is "T", "F" or "X"
matchCombineIndexedLoadStore(S, MI) ==
    LET pre == findPreIndexCandidate(S, MI)
        post == findPostIndexCandidate(S, MI)
    IN  IF Opcode(S, MI) \notin MemOpcodes
        THEN IndexedInfo("F", FALSE, Candidate("F", 0, 0, 0))
        ELSE IF ~ForceLegalIndexing
        THEN IndexedInfo("F", FALSE, Candidate("F", 0, 0, 0))
        ELSE IF pre.ok = "X" THEN IndexedInfo("X", FALSE, pre)
        ELSE IF pre.ok = "T" THEN IndexedInfo("T", TRUE, pre)
        ELSE IndexedInfo(post.ok, FALSE, post)

IndexedOpcode(opc) ==
    IF opc = "G_LOAD" THEN "G_INDEXED_LOAD"
    ELSE IF opc = "G_SEXTLOAD" THEN "G_INDEXED_SEXTLOAD"
    ELSE IF opc = "G_ZEXTLOAD" THEN "G_INDEXED_ZEXTLOAD"
    ELSE "G_INDEXED_STORE"

\* CombinerHelper::applyCombineIndexedLoadStore.  The new instruction is built
\* by a builder of its own, placed before MI.
applyCombineIndexedLoadStore(S, MI, MatchInfo) ==
    LET AddrDef == getVRegDef(S, MatchInfo.Addr)
        IsStore == Opcode(S, MI) = "G_STORE"
        S1 == setInstr(S, MI)
        S2 == IF IsStore
              THEN buildInstr(S1, IndexedOpcode(Opcode(S, MI)), <<MatchInfo.Addr>>,
                              <<Operand(S, MI, 0), MatchInfo.Base, MatchInfo.Offset>>)
              ELSE buildInstr(S1, IndexedOpcode(Opcode(S, MI)),
                              <<Operand(S, MI, 0), MatchInfo.Addr>>,
                              <<MatchInfo.Base, MatchInfo.Offset>>)
        S3 == [S2 EXCEPT !.code[IdxOf(S2, LastBuilt(S2))].imm =
                             IF MatchInfo.IsPre THEN 1 ELSE 0,
                         !.ins = S.ins]
        S4 == eraseFromParent(S3, MI)
    IN  eraseFromParent(S4, AddrDef)

tryCombineIndexedLoadStore(S, MI) ==
    LET Matched(m) ==
          IF m.ok = "X" THEN Result([S EXCEPT !.crashed = TRUE], FALSE, S.code, m)
          ELSE IF m.ok = "T"
          THEN Result(applyCombineIndexedLoadStore(Tried(S, "indexed", TRUE), MI, m),
                      TRUE, S.code, m)
          ELSE Result(Tried(S, "indexed", FALSE), FALSE, S.code, m)
    IN  Matched(matchCombineIndexedLoadStore(S, MI))

-----------------------------------------------------------------------------
\* The top-level entry point.

\* A variant that tries the extending-load combine first.
tryCombineExtFirst(S, MI) ==
    LET r1 == tryCombineExtendingLoads(S, MI)
        r2 == tryCombineCopy(r1.S, MI)
    IN  IF r1.ret THEN r1
        ELSE IF r2.ret THEN r2
        ELSE tryCombineIndexedLoadStore(r2.S, MI)

\* CombinerHelper::tryCombine
tryCombine(S, MI) ==
    LET r1 == tryCombineCopy(S, MI)
        r2 == tryCombineExtendingLoads(r1.S, MI)
    IN  IF r1.ret THEN r1
        ELSE IF r2.ret THEN r2
        ELSE tryCombineIndexedLoadStore(r2.S, MI)

-----------------------------------------------------------------------------
\* Flattening of concat_vectors and shuffle_vector.

MatchOps(S, ok, IsUndef, Undef, Ops) ==
    [S |-> S, ok |-> ok, IsUndef |-> IsUndef, Undef |-> Undef, Ops |-> Ops]

Repeat(x, n) == [k \in 1..n |-> x]

\* the operand loop of matchCombineConcatVectors; Undef is the id of the
\* G_IMPLICIT_DEF the matcher has built, 0 if none
RECURSIVE ConcatOver(_, _, _, _)
ConcatOver(S, MI, i, acc) ==
    IF i > Len(InstOf(S, MI).uses) THEN [acc EXCEPT !.S = S, !.ok = TRUE]
    ELSE
      LET Reg == InstOf(S, MI).uses[i]
          Def == getVRegDef(S, Reg)
          OpType == S.ty[Reg]
          S1 == IF acc.Undef = 0
                THEN buildUndefTy(setInstr(S, MI), getScalarType(OpType))
                ELSE S
          Undef == IF acc.Undef = 0 THEN LastBuilt(S1) ELSE acc.Undef
      IN  IF Opcode(S, Def) = "G_BUILD_VECTOR"
          THEN ConcatOver(S, MI, i + 1,
                   [acc EXCEPT !.IsUndef = FALSE, !.Ops = @ \o InstOf(S, Def).uses])
          ELSE IF Opcode(S, Def) = "G_IMPLICIT_DEF"
          THEN ConcatOver(S1, MI, i + 1,
                   [acc EXCEPT !.Undef = Undef,
                               !.Ops = @ \o Repeat(Def0(S1, Undef), getNumElements(OpType))])
          ELSE [acc EXCEPT !.S = S, !.ok = FALSE]

\* CombinerHelper::matchCombineConcatVectors
matchCombineConcatVectors(S, MI) ==
    ConcatOver(S, MI, 1, MatchOps(S, FALSE, TRUE, 0, <<>>))

\* MachineIRBuilder::buildMerge: the opcode follows the operand types
buildMerge(S, dst, ops) ==
    buildInstr(S, IF isVector(S.ty[dst])
                  THEN (IF isVector(S.ty[ops[1]]) THEN "G_CONCAT_VECTORS"
                        ELSE "G_BUILD_VECTOR")
                  ELSE "G_MERGE_VALUES", <<dst>>, ops)

\* CombinerHelper::applyCombineConcatVectors
applyCombineConcatVectors(S, MI, IsUndef, Ops) ==
    LET DstReg == Def0(S, MI)
        S1 == cloneVirtualRegister(setInstr(S, MI), DstReg)
        NewDstReg == LastReg(S1)
        S2 == IF IsUndef THEN buildUndefReg(S1, NewDstReg)
              ELSE buildInstr(S1, "G_BUILD_VECTOR", <<NewDstReg>>, Ops)
    IN  replaceRegWith(eraseFromParent(S2, MI), DstReg, NewDstReg)

tryCombineConcatVectors(S, MI) ==
    LET m == matchCombineConcatVectors(S, MI)
        inf == [kind |-> "ops", IsUndef |-> m.IsUndef, Ops |-> m.Ops]
        S1 == Tried(m.S, "concat", m.ok)
    IN  IF m.ok
        THEN Result(applyCombineConcatVectors(S1, MI, m.IsUndef, m.Ops), TRUE, m.S.code, inf)
        ELSE Result(S1, FALSE, m.S.code, inf)

NumElts(t) == IF isVector(t) THEN getNumElements(t) ELSE 1

\* the mask loop of matchCombineShuffleVector: ConcatSrcs, or <<>> when the
\* mask is no concatenation
RECURSIVE ConcatSrcsOf(_, _, _, _, _)
ConcatSrcsOf(Mask, DstNumElts, SrcNumElts, i, ConcatSrcs) ==
    IF i = DstNumElts THEN ConcatSrcs
    ELSE LET Idx == Mask[i + 1]
             piece == (i \div SrcNumElts) + 1
         IN  IF Idx < 0
             THEN ConcatSrcsOf(Mask, DstNumElts, SrcNumElts, i + 1, ConcatSrcs)
             ELSE IF (Idx % SrcNumElts # i % SrcNumElts)
                       \/ (ConcatSrcs[piece] >= 0 /\ ConcatSrcs[piece] # Idx \div SrcNumElts)
             THEN <<>>
             ELSE ConcatSrcsOf(Mask, DstNumElts, SrcNumElts, i + 1,
                               [ConcatSrcs EXCEPT ![piece] = Idx \div SrcNumElts])

\* the loop over ConcatSrcs of matchCombineShuffleVector
RECURSIVE ShuffleOpsOver(_, _, _, _, _)
ShuffleOpsOver(S, MI, ConcatSrcs, i, acc) ==
    IF i > Len(ConcatSrcs) THEN [acc EXCEPT !.S = S, !.ok = TRUE]
    ELSE
      LET Src == ConcatSrcs[i]
          S1 == IF acc.Undef = 0
                THEN buildUndefTy(setInstr(S, MI), S.ty[Operand(S, MI, 1)])
                ELSE S
          Undef == IF acc.Undef = 0 THEN LastBuilt(S1) ELSE acc.Undef
      IN  IF Src < 0
          THEN ShuffleOpsOver(S1, MI, ConcatSrcs, i + 1,
                   [acc EXCEPT !.Undef = Undef, !.Ops = Append(@, Def0(S1, Undef))])
          ELSE ShuffleOpsOver(S, MI, ConcatSrcs, i + 1,
                   [acc EXCEPT !.Ops = Append(@, IF Src = 0 THEN Operand(S, MI, 1)
                                                  ELSE Operand(S, MI, 2))])

\* CombinerHelper::matchCombineShuffleVector
matchCombineShuffleVector(S, MI) ==
    LET DstNumElts == NumElts(S.ty[Def0(S, MI)])
        SrcNumElts == NumElts(S.ty[Operand(S, MI, 1)])
        none == MatchOps(S, FALSE, FALSE, 0, <<>>)
        ConcatSrcs == ConcatSrcsOf(InstOf(S, MI).mask, DstNumElts, SrcNumElts, 0,
                                   Repeat(-1, DstNumElts \div SrcNumElts))
    IN  IF DstNumElts < 2 * SrcNumElts /\ DstNumElts # 1 THEN none
        ELSE IF DstNumElts % SrcNumElts # 0 THEN none
        ELSE IF ConcatSrcs = <<>> THEN none
        ELSE ShuffleOpsOver(S, MI, ConcatSrcs, 1, none)

\* CombinerHelper::applyCombineShuffleVector
applyCombineShuffleVector(S, MI, Ops) ==
    LET DstReg == Def0(S, MI)
        S1 == cloneVirtualRegister(setInstr(S, MI), DstReg)
        NewDstReg == LastReg(S1)
        S2 == IF Len(Ops) = 1 THEN buildCopy(S1, NewDstReg, Ops[1])
              ELSE buildMerge(S1, NewDstReg, Ops)
    IN  replaceRegWith(eraseFromParent(S2, MI), DstReg, NewDstReg)

tryCombineShuffleVector(S, MI) ==
    LET m == matchCombineShuffleVector(S, MI)
        inf == [kind |-> "ops", IsUndef |-> FALSE, Ops |-> m.Ops]
        S1 == Tried(m.S, "shuffle", m.ok)
    IN  IF m.ok
        THEN Result(applyCombineShuffleVector(S1, MI, m.Ops), TRUE, m.S.code, inf)
        ELSE Result(S1, FALSE, m.S.code, inf)

-----------------------------------------------------------------------------
\* Branch-polarity inversion and NOT-of-comparison.

\* CmpInst::getInversePredicate
getInversePredicate(p) ==
    CASE p = "eq" -> "ne" [] p = "ne" -> "eq"
      [] p = "slt" -> "sge" [] p = "sge" -> "slt"
      [] p = "sgt" -> "sle" [] p = "sle" -> "sgt"

\* id of the instruction before id in its block, 0 at the block's begin
PrevInBlock(S, id) ==
    LET i == IdxOf(S, id)
    IN  IF i > 1 /\ S.code[i - 1].bb = S.code[i].bb THEN S.code[i - 1].id ELSE 0

\* MachineBasicBlock::isLayoutSuccessor
isLayoutSuccessor(bb, succ) == succ = bb + 1

\* CombinerHelper::matchElideBrByInvertingCond
matchElideBrByInvertingCond(S, MI) ==
    LET BrCond == PrevInBlock(S, MI)
        CmpMI == getVRegDef(S, Operand(S, BrCond, 0))
    IN  IF Opcode(S, MI) # "G_BR" THEN FALSE
        ELSE IF BrCond = 0 THEN FALSE
        ELSE IF Opcode(S, BrCond) # "G_BRCOND" THEN FALSE
        ELSE IF ~isLayoutSuccessor(InstOf(S, MI).bb, InstOf(S, BrCond).mbbs[1]) THEN FALSE
        ELSE IF CmpMI = 0 THEN FALSE
        ELSE IF Opcode(S, CmpMI) # "G_ICMP" THEN FALSE
        ELSE hasOneNonDBGUse(S, Def0(S, CmpMI))

\* A variant that leaves the comparison as it is.
applyElideBrKeepingCond(S, MI) ==
    LET BrTarget == InstOf(S, MI).mbbs[1]
        BrCond == PrevInBlock(S, MI)
        S4 == Emit(S, Ev("changingInstr", BrCond))
        S5 == setMBB(S4, BrCond, 1, BrTarget)
        S6 == Emit(S5, Ev("changedInstr", BrCond))
    IN  eraseFromParent(S6, MI)

\* CombinerHelper::applyElideBrByInvertingCond
applyElideBrByInvertingCond(S, MI) ==
    LET BrTarget == InstOf(S, MI).mbbs[1]
        BrCond == PrevInBlock(S, MI)
        CmpMI == getVRegDef(S, Operand(S, BrCond, 0))
        S1 == Emit(S, Ev("changingInstr", CmpMI))
        S2 == setPredicate(S1, CmpMI, getInversePredicate(InstOf(S, CmpMI).pred))
        S3 == Emit(S2, Ev("changedInstr", CmpMI))
        S4 == Emit(S3, Ev("changingInstr", BrCond))
        S5 == setMBB(S4, BrCond, 1, BrTarget)
        S6 == Emit(S5, Ev("changedInstr", BrCond))
    IN  eraseFromParent(S6, MI)

tryElideBrByInvertingCond(S, MI) ==
    LET m == matchElideBrByInvertingCond(S, MI)
        S1 == Tried(S, "elidebr", m)
    IN  IF m THEN Result(applyElideBrByInvertingCond(S1, MI), TRUE, S.code, NoInfo)
        ELSE Result(S1, FALSE, S.code, NoInfo)

\* getConstantVRegValWithLookThrough: [ok, Value]
getConstantVRegVal(S, r) ==
    LET d == getDefIgnoringCopies(S, r)
    IN  IF d # 0 /\ Opcode(S, d) = "G_CONSTANT"
        THEN [ok |-> TRUE, Value |-> InstOf(S, d).imm]
        ELSE [ok |-> FALSE, Value |-> 0]

\* isConstValidTrue on a target whose booleans are zero or one
isConstValidTrue(ScalarSizeBits, Cst) ==
    (ScalarSizeBits = 1 /\ Cst = -1) \/ Cst = 1

\* CombinerHelper::matchNotCmp (scalar): [ok, CmpReg]
matchNotCmp(S, MI) ==
    LET XorSrc == Operand(S, MI, 1)
        CstReg == Operand(S, MI, 2)
        SrcDef == getVRegDef(S, XorSrc)
        Cst == getConstantVRegVal(S, CstReg)
    IN  IF ~hasOneNonDBGUse(S, XorSrc) THEN [ok |-> FALSE, CmpReg |-> 0]
        ELSE IF SrcDef = 0 \/ Opcode(S, SrcDef) \notin {"G_ICMP", "G_FCMP"}
        THEN [ok |-> FALSE, CmpReg |-> 0]
        ELSE IF ~Cst.ok THEN [ok |-> FALSE, CmpReg |-> 0]
        ELSE IF ~isConstValidTrue(getSizeInBits(S.ty[Def0(S, MI)]), Cst.Value)
        THEN [ok |-> FALSE, CmpReg |-> 0]
        ELSE [ok |-> TRUE, CmpReg |-> XorSrc]

\* CombinerHelper::applyNotCmp
applyNotCmp(S, MI, CmpReg) ==
    LET CmpDef == getVRegDef(S, CmpReg)
        S1 == Emit(S, Ev("changingInstr", CmpDef))
        S2 == setPredicate(S1, CmpDef, getInversePredicate(InstOf(S, CmpDef).pred))
        S3 == Emit(S2, Ev("changedInstr", CmpDef))
        S4 == replaceRegWith(S3, Def0(S, MI), Def0(S, CmpDef))
    IN  eraseFromParent(S4, MI)

tryNotCmp(S, MI) ==
    LET m == matchNotCmp(S, MI)
        inf == [kind |-> "reg", Reg |-> m.CmpReg]
        S1 == Tried(S, "notcmp", m.ok)
    IN  IF m.ok THEN Result(applyNotCmp(S1, MI, m.CmpReg), TRUE, S.code, inf)
        ELSE Result(S1, FALSE, S.code, inf)

-----------------------------------------------------------------------------
\* Rules that rewrite their instruction in place, and the erasing rule.

\* MachineIRBuilder::buildConstant(LLT, value) by a builder placed before MI
buildConstantBefore(S, MI, ty, val) ==
    LET S1 == createGenericVirtualRegister(setInstr(S, MI), ty)
        S2 == buildInstr(S1, "G_CONSTANT", <<LastReg(S1)>>, <<>>)
    IN  [S2 EXCEPT !.code[IdxOf(S2, LastBuilt(S2))].imm = val, !.ins = S.ins]

\* CombinerHelper::matchPtrAddImmedChain: [ok, Imm, Base]
matchPtrAddImmedChain(S, MI) ==
    LET Add2 == Operand(S, MI, 1)
        Imm1 == getConstantVRegVal(S, Operand(S, MI, 2))
        Add2Def == getVRegDef(S, Add2)
        Imm2 == getConstantVRegVal(S, Operand(S, Add2Def, 2))
        no == [ok |-> FALSE, Imm |-> 0, Base |-> 0]
    IN  IF Opcode(S, MI) # "G_PTR_ADD" THEN no
        ELSE IF ~Imm1.ok THEN no
        ELSE IF Add2Def = 0 \/ Opcode(S, Add2Def) # "G_PTR_ADD" THEN no
        ELSE IF ~Imm2.ok THEN no
        ELSE [ok |-> TRUE, Imm |-> Imm1.Value + Imm2.Value, Base |-> Operand(S, Add2Def, 1)]

\* CombinerHelper::applyPtrAddImmedChain
applyPtrAddImmedChain(S, MI, MatchInfo) ==
    LET S1 == buildConstantBefore(S, MI, S.ty[Operand(S, MI, 2)], MatchInfo.Imm)
        NewOffset == LastReg(S1)
        S2 == Emit(S1, Ev("changingInstr", MI))
        S3 == setUseReg(setUseReg(S2, MI, 1, MatchInfo.Base), MI, 2, NewOffset)
    IN  Emit(S3, Ev("changedInstr", MI))

tryPtrAddImmedChain(S, MI) ==
    LET m == matchPtrAddImmedChain(S, MI)
        inf == [kind |-> "ptradd", Imm |-> m.Imm, Base |-> m.Base]
        S1 == Tried(S, "ptradd", m.ok)
    IN  IF m.ok THEN Result(applyPtrAddImmedChain(S1, MI, m), TRUE, S.code, inf)
        ELSE Result(S1, FALSE, S.code, inf)

RECURSIVE Log2_64(_)
Log2_64(x) == IF x <= 1 THEN 0 ELSE 1 + Log2_64(x \div 2)

\* CombinerHelper::matchCombineMulToShl: [ok, ShiftVal]
matchCombineMulToShl(S, MI) ==
    LET Imm == getConstantVRegVal(S, Operand(S, MI, 2))
    IN  IF ~Imm.ok \/ ~isPowerOf2_32(Imm.Value) THEN [ok |-> FALSE, ShiftVal |-> 0]
        ELSE [ok |-> TRUE, ShiftVal |-> Log2_64(Imm.Value)]

\* CombinerHelper::applyCombineMulToShl
applyCombineMulToShl(S, MI, ShiftVal) ==
    LET S1 == buildConstantBefore(S, MI, S.ty[Def0(S, MI)], ShiftVal)
        ShiftCst == LastReg(S1)
        S2 == Emit(S1, Ev("changingInstr", MI))
        S3 == setUseReg(setDesc(S2, MI, "G_SHL"), MI, 2, ShiftCst)
    IN  Emit(S3, Ev("changedInstr", MI))

tryCombineMulToShl(S, MI) ==
    LET m == matchCombineMulToShl(S, MI)
        inf == [kind |-> "imm", Imm |-> m.ShiftVal]
        S1 == Tried(S, "multoshl", m.ok)
    IN  IF m.ok THEN Result(applyCombineMulToShl(S1, MI, m.ShiftVal), TRUE, S.code, inf)
        ELSE Result(S1, FALSE, S.code, inf)

\* CombinerHelper::matchCombineExtOfExt: [ok, Reg, SrcExtOp]
matchCombineExtOfExt(S, MI) ==
    LET SrcMI == getVRegDef(S, Operand(S, MI, 1))
        Opc == Opcode(S, MI)
        SrcOpc == Opcode(S, SrcMI)
    IN  IF Opc = SrcOpc
             \/ (Opc = "G_ANYEXT" /\ SrcOpc \in {"G_SEXT", "G_ZEXT"})
             \/ (Opc = "G_SEXT" /\ SrcOpc = "G_ZEXT")
        THEN [ok |-> TRUE, Reg |-> Operand(S, SrcMI, 1), SrcExtOp |-> SrcOpc]
        ELSE [ok |-> FALSE, Reg |-> 0, SrcExtOp |-> ""]

\* CombinerHelper::applyCombineExtOfExt
applyCombineExtOfExt(S, MI, MatchInfo) ==
    IF Opcode(S, MI) = MatchInfo.SrcExtOp
    THEN LET S1 == Emit(S, Ev("changingInstr", MI))
             S2 == setUseReg(S1, MI, 1, MatchInfo.Reg)
         IN  Emit(S2, Ev("changedInstr", MI))
    ELSE LET S1 == buildInstr(setInstr(S, MI), MatchInfo.SrcExtOp,
                              <<Def0(S, MI)>>, <<MatchInfo.Reg>>)
         IN  eraseFromParent(S1, MI)

tryCombineExtOfExt(S, MI) ==
    LET m == matchCombineExtOfExt(S, MI)
        inf == [kind |-> "reg", Reg |-> m.Reg]
        S1 == Tried(S, "extofext", m.ok)
    IN  IF m.ok THEN Result(applyCombineExtOfExt(S1, MI, m), TRUE, S.code, inf)
        ELSE Result(S1, FALSE, S.code, inf)

\* CombinerHelper::matchUndefStore
matchUndefStore(S, MI) == getOpcodeDef(S, "G_IMPLICIT_DEF", Operand(S, MI, 0)) # 0

\* CombinerHelper::eraseInst
eraseInst(S, MI) == eraseFromParent(S, MI)

tryEraseUndefStore(S, MI) ==
    LET m == matchUndefStore(S, MI)
        S1 == Tried(S, "undefstore", m)
    IN  IF m THEN Result(eraseInst(S1, MI), TRUE, S.code, NoInfo)
        ELSE Result(S1, FALSE, S.code, NoInfo)

-----------------------------------------------------------------------------
\* Lowering of G_MEMSET, G_MEMCPY and G_MEMMOVE of a constant length.

getSizeInBytes(t) == (getSizeInBits(t) + 7) \div 8

RECURSIVE PowerOf2Floor(_)
PowerOf2Floor(x) == IF x <= 0 THEN 0 ELSE IF x = 1 THEN 1 ELSE 2 * PowerOf2Floor(x \div 2)

\* unsigned a - b: a difference below zero wraps to a value near the top of
\* the type's range; 2^30 stands for 2^32 here, every size and offset of the
\* model is far below either
USub(a, b) == IF a >= b THEN a - b ELSE a - b + 2^30

commonAlignment(a, b) == IF a < b THEN a ELSE b

\* A variant that leaves the offset of an overlapping chunk where it is.
UnadjustedOffset(CurrOffset, bytes, Size) == CurrOffset

\* "if (TySize > Size) DstOff -= TySize - Size": the offset of a chunk, moved
\* back when the chunk is larger than what remains
AdjustedOffset(CurrOffset, bytes, Size) ==
    IF bytes > Size THEN USub(CurrOffset, bytes - Size) ELSE CurrOffset

\* MemOp::Set and MemOp::Copy
MemOp_Set(Size, DstAlignCanChange, DstAlign, IsZeroMemset, IsVolatile) ==
    [Size |-> Size, DstAlignCanChange |-> DstAlignCanChange, DstAlign |-> DstAlign,
     SrcAlign |-> 1, AllowOverlap |-> ~IsVolatile, IsMemset |-> TRUE,
     ZeroMemset |-> IsZeroMemset]
MemOp_Copy(Size, DstAlignCanChange, DstAlign, SrcAlign, IsVolatile) ==
    [Size |-> Size, DstAlignCanChange |-> DstAlignCanChange, DstAlign |-> DstAlign,
     SrcAlign |-> SrcAlign, AllowOverlap |-> ~IsVolatile, IsMemset |-> FALSE,
     ZeroMemset |-> FALSE]

\* the loop "use the largest scalar type whose alignment constraints are
\* satisfied" of findGISelOptimalMemOpLowering
RECURSIVE LargestAlignedTy(_, _)
LargestAlignedTy(Ty, Op) ==
    IF Op.DstAlign < getSizeInBytes(Ty) /\ ~TGT.Misaligned
    THEN LargestAlignedTy(Scalar(getSizeInBytes(Ty)), Op)
    ELSE Ty

\* an overlapping access taken for the first chunk as well
UseOverlappingAccessAnywhere(NumMemOps, Op, NewTySize, Size) ==
    /\ Op.AllowOverlap
    /\ NewTySize < Size
    /\ TGT.Misaligned /\ TGT.Fast

\* "if (NumMemOps && Op.allowOverlap() && NewTySize < Size &&
\*      TLI.allowsMisalignedMemoryAccesses(..., &Fast) && Fast)"
UseOverlappingAccess(NumMemOps, Op, NewTySize, Size) ==
    /\ NumMemOps # 0
    /\ Op.AllowOverlap
    /\ NewTySize < Size
    /\ TGT.Misaligned /\ TGT.Fast

\* the loop "while (TySize > Size)" of findGISelOptimalMemOpLowering
RECURSIVE ShrinkTy(_, _, _, _, _)
ShrinkTy(Ty, TySize, Size, NumMemOps, Op) ==
    IF TySize <= Size THEN [Ty |-> Ty, TySize |-> TySize]
    ELSE
      LET Narrow == IF isVector(Ty)
                    THEN (IF getSizeInBits(Ty) > 64 THEN Scalar(64) ELSE Scalar(32))
                    ELSE Ty
          NewTy == Scalar(PowerOf2Floor(getSizeInBits(Narrow) - 1))
          NewTySize == getSizeInBytes(NewTy)
      IN  IF UseOverlappingAccess(NumMemOps, Op, NewTySize, Size)
          THEN ShrinkTy(Ty, Size, Size, NumMemOps, Op)
          ELSE ShrinkTy(NewTy, NewTySize, Size, NumMemOps, Op)

\* the loop "while (Size)" of findGISelOptimalMemOpLowering
RECURSIVE PlanMemOps(_, _, _, _, _)
PlanMemOps(MemOps, Limit, Op, Ty, Size) ==
    IF Size = 0 THEN [ok |-> TRUE, MemOps |-> MemOps]
    ELSE
      LET s == ShrinkTy(Ty, getSizeInBytes(Ty), Size, Len(MemOps), Op)
      IN  IF Len(MemOps) + 1 > Limit THEN [ok |-> FALSE, MemOps |-> MemOps]
          ELSE PlanMemOps(Append(MemOps, s.Ty), Limit, Op, s.Ty, Size - s.TySize)

\* A variant that plans one operation more than the limit allows.
findMemOpLoweringOneMore(Limit, Op) ==
    LET Opt == TGT.OptimalTy
        Ty == IF Opt # LLTNone THEN Opt
              ELSE IF ~Op.DstAlignCanChange THEN LargestAlignedTy(Scalar(64), Op)
              ELSE Scalar(64)
    IN  IF ~Op.IsMemset /\ ~Op.DstAlignCanChange /\ Op.SrcAlign < Op.DstAlign
        THEN [ok |-> FALSE, MemOps |-> <<>>]
        ELSE PlanMemOps(<<>>, Limit + 1, Op, Ty, Op.Size)

\* findGISelOptimalMemOpLowering: [ok, MemOps]
findGISelOptimalMemOpLowering(Limit, Op) ==
    LET Opt == TGT.OptimalTy
        Ty == IF Opt # LLTNone THEN Opt
              ELSE IF ~Op.DstAlignCanChange THEN LargestAlignedTy(Scalar(64), Op)
              ELSE Scalar(64)
    IN  IF ~Op.IsMemset /\ ~Op.DstAlignCanChange /\ Op.SrcAlign < Op.DstAlign
        THEN [ok |-> FALSE, MemOps |-> <<>>]
        ELSE PlanMemOps(<<>>, Limit, Op, Ty, Op.Size)

\* DataLayout::getABITypeAlign of the integer or vector type of an LLT, and
\* DataLayout::exceedsNaturalStackAlignment
getABITypeAlign(Ty) == getSizeInBytes(Ty)
exceedsNaturalStackAlignment(a) == TGT.StackAlign # 0 /\ a > TGT.StackAlign

\* MachineFrameInfo::setObjectAlignment
setObjectAlignment(S, FI, a) == [S EXCEPT !.mfi[FI].align = a]

\* the instruction the builder has just built, with its fields changed
WithLast(S, f, v) == [S EXCEPT !.code[IdxOf(S, LastBuilt(S))][f] = v]

\* MachineIRBuilder::buildInstr with a result of type ty in a fresh register
MIB_build(S, opc, ty, uses) ==
    LET S1 == createGenericVirtualRegister(S, ty)
    IN  buildInstr(S1, opc, <<LastReg(S1)>>, uses)

MIB_buildConstant(S, ty, val) == WithLast(MIB_build(S, "G_CONSTANT", ty, <<>>), "imm", val)

\* buildConstant of APInt::getSplat(NumBits, byte): imm keeps the low byte,
\* mask all bytes of the constant
MIB_buildSplat(S, ty, NumBits, byte) ==
    WithLast(MIB_buildConstant(S, ty, byte), "mask", [i \in 1..(NumBits \div 8) |-> byte])

\* buildLoad / buildStore with the memory operand getMachineMemOperand
\* derives from MMO align at offset off, of size bytes
MIB_buildLoad(S, ty, ptr, align, off) ==
    LET S1 == MIB_build(S, "G_LOAD", ty, <<ptr>>)
    IN  WithLast(WithLast(WithLast(S1, "mmo", 8 * getSizeInBytes(ty)), "off", off),
                 "align", align)
MIB_buildStore(S, val, ptr, bytes, align, off) ==
    LET S1 == buildInstr(S, "G_STORE", <<>>, <<val, ptr>>)
    IN  WithLast(WithLast(WithLast(S1, "mmo", 8 * bytes), "off", off), "align", align)

\* the constant offset and the G_PTR_ADD the lowering builds for an access
\* at a non-zero offset: [S, Offset, Ptr]
MIB_buildOffsetPtr(S, Base, off) ==
    LET S1 == MIB_buildConstant(S, Scalar(getSizeInBits(S.ty[Base])), off)
        S2 == MIB_build(S1, "G_PTR_ADD", S.ty[Base], <<Base, LastReg(S1)>>)
    IN  [S |-> S2, Offset |-> LastReg(S1), Ptr |-> LastReg(S2)]

\* getMemsetValue: [S, Val]
getMemsetValue(S, Val, Ty) ==
    LET NumBits == getSizeInBits(getScalarType(Ty))
        c == getConstantVRegVal(S, Val)
        ExtType == getScalarType(Ty)
        ValBits == getSizeInBits(S.ty[Val])
        S1 == MIB_build(S, IF NumBits > ValBits THEN "G_ZEXT"
                           ELSE IF NumBits < ValBits THEN "G_TRUNC" ELSE "COPY",
                        ExtType, <<Val>>)
        ZExt == LastReg(S1)
        S2 == MIB_buildSplat(S1, ExtType, NumBits, 1)
        S3 == IF NumBits > 8 THEN MIB_build(S2, "G_MUL", ExtType, <<ZExt, LastReg(S2)>>)
              ELSE S1
        V3 == LastReg(S3)
        S4 == IF isVector(Ty)
              THEN MIB_build(S3, "G_BUILD_VECTOR", Ty, [i \in 1..getNumElements(Ty) |-> V3])
              ELSE S3
        k == MIB_buildSplat(S, Ty, NumBits, c.Value % 256)
        z == MIB_buildConstant(S, Ty, 0)
    IN  IF ~isVector(Ty) /\ c.ok THEN [S |-> k, Val |-> LastReg(k)]
        ELSE IF c.ok /\ c.Value = 0 THEN [S |-> z, Val |-> LastReg(z)]
        ELSE [S |-> S4, Val |-> LastReg(S4)]

RECURSIVE LargestOf(_, _, _)
LargestOf(MemOps, i, LargestTy) ==
    IF i > Len(MemOps) THEN LargestTy
    ELSE LargestOf(MemOps, i + 1,
                   IF getSizeInBits(MemOps[i]) > getSizeInBits(LargestTy)
                   THEN MemOps[i] ELSE LargestTy)

\* the store loop of optimizeMemset; its assertion aborts the run
RECURSIVE MemsetStores(_, _, _, _, _, _, _, _, _, _)
MemsetStores(S, Dst, Val, MemSetValue, LargestTy, MemOps, I, DstOff, Size, align) ==
    IF I > Len(MemOps) THEN S
    ELSE
      LET Ty == MemOps[I]
          TySize == getSizeInBytes(Ty)
          Off == AdjustedOffset(DstOff, TySize, Size)
          small == getSizeInBits(Ty) < getSizeInBits(LargestTy)
          Trunc(t) == [S |-> t, Val |-> LastReg(t)]
          At(S0) == IF Off # 0 THEN MIB_buildOffsetPtr(S0, Dst, Off)
                    ELSE [S |-> S0, Offset |-> 0, Ptr |-> Dst]
          Store(p, Value) == MIB_buildStore(p.S, Value, p.Ptr, TySize, align, Off)
          StoreOf(v) == Store(At(v.S), v.Val)
      IN  IF TySize > Size /\ ~(I = Len(MemOps) /\ I # 1)
          THEN [S EXCEPT !.crashed = TRUE]
          ELSE MemsetStores(
                 StoreOf(IF ~small THEN [S |-> S, Val |-> MemSetValue]
                         ELSE IF ~isVector(LargestTy) /\ ~isVector(Ty) /\ TGT.TruncFree
                         THEN Trunc(MIB_build(S, "G_TRUNC", Ty, <<MemSetValue>>))
                         ELSE getMemsetValue(S, Val, Ty)),
                 Dst, Val, MemSetValue, LargestTy, MemOps, I + 1,
                 Off + TySize, USub(Size, TySize), align)

\* the slot of a destination that is a stack object whose alignment the
\* function may still change: [can, FI]
ChangeableSlot(S, Dst) ==
    LET FIDef == getOpcodeDef(S, "G_FRAME_INDEX", Dst)
    IN  IF FIDef # 0 /\ ~S.mfi[InstOf(S, FIDef).imm].fixed
        THEN [can |-> TRUE, FI |-> InstOf(S, FIDef).imm]
        ELSE [can |-> FALSE, FI |-> 0]

MemInfo(Limit, plan) ==
    [kind |-> "mem", MaxLen |-> 0, Limit |-> Limit, planned |-> plan.ok,
     MemOps |-> plan.MemOps]
NoPlan == [ok |-> FALSE, MemOps |-> <<>>]

\* CombinerHelper::optimizeMemset.  Plan is the call of
\* findGISelOptimalMemOpLowering, Raised the "if (DstAlignCanChange)" block,
\* Build the splat value and the store loop, Done the erasure of MI.
optimizeMemset(S, MI, Dst, Val, KnownLen, Alignment, IsVolatile) ==
    LET Limit == TGT.MaxStores["G_MEMSET"]
        Plan(slot, c) ==
          findGISelOptimalMemOpLowering(Limit,
              MemOp_Set(KnownLen, slot.can, Alignment, c.ok /\ c.Value = 0, IsVolatile))
        Raised(slot, NewAlign) ==
          IF slot.can /\ NewAlign > Alignment /\ S.mfi[slot.FI].align < NewAlign
          THEN setObjectAlignment(S, slot.FI, NewAlign) ELSE S
        Stores(v, LargestTy, MemOps) ==
          MemsetStores(v.S, Dst, Val, v.Val, LargestTy, MemOps, 1, 0, KnownLen,
                       InstOf(S, MI).align)
        Done(S2, inf) ==
          IF S2.crashed THEN Result(S2, FALSE, S.code, inf)
          ELSE Result(eraseFromParent([S2 EXCEPT !.ins = S.ins], MI), TRUE, S.code, inf)
        Build(S1, LargestTy, plan) ==
          Done(Stores(getMemsetValue(setInstr(S1, MI), Val, LargestTy), LargestTy,
                      plan.MemOps),
               MemInfo(Limit, plan))
        Lower(slot, plan) ==
          IF ~plan.ok THEN Result(S, FALSE, S.code, MemInfo(Limit, plan))
          ELSE Build(Raised(slot, getABITypeAlign(plan.MemOps[1])),
                     LargestOf(plan.MemOps, 2, plan.MemOps[1]), plan)
        From(slot) == Lower(slot, Plan(slot, getConstantVRegVal(S, Val)))
    IN  From(ChangeableSlot(S, Dst))

\* the "if (DstAlignCanChange)" block of optimizeMemcpy and optimizeMemmove
RECURSIVE HalveToStack(_, _)
HalveToStack(NewAlign, Alignment) ==
    IF NewAlign > Alignment /\ exceedsNaturalStackAlignment(NewAlign)
    THEN HalveToStack(NewAlign \div 2, Alignment) ELSE NewAlign

RaiseSlotAlignment(S, slot, Alignment, MemOps) ==
    LET Abi == getABITypeAlign(MemOps[1])
        NewAlign == IF ~TGT.Realign THEN HalveToStack(Abi, Alignment) ELSE Abi
    IN  IF slot.can /\ NewAlign > Alignment /\ S.mfi[slot.FI].align < NewAlign
        THEN setObjectAlignment(S, slot.FI, NewAlign) ELSE S

\* the load/store loop of optimizeMemcpy
RECURSIVE MemcpyPairs(_, _, _, _, _, _, _, _)
MemcpyPairs(S, Dst, Src, MemOps, I, CurrOffset, Size, aligns) ==
    IF I > Len(MemOps) THEN S
    ELSE
      LET CopyTy == MemOps[I]
          bytes == getSizeInBytes(CopyTy)
          Off == AdjustedOffset(CurrOffset, bytes, Size)
          lp == IF Off # 0 THEN MIB_buildOffsetPtr(S, Src, Off)
                ELSE [S |-> S, Offset |-> 0, Ptr |-> Src]
          S1 == MIB_buildLoad(lp.S, CopyTy, lp.Ptr, aligns[2], Off)
          LdVal == LastReg(S1)
          S2 == IF Off = 0 THEN S1
                ELSE MIB_build(S1, "G_PTR_ADD", S.ty[Src], <<Dst, lp.Offset>>)
          StorePtr == IF Off = 0 THEN Dst ELSE LastReg(S2)
          S3 == MIB_buildStore(S2, LdVal, StorePtr, bytes, aligns[1], Off)
      IN  MemcpyPairs(S3, Dst, Src, MemOps, I + 1, Off + bytes, USub(Size, bytes), aligns)

\* CombinerHelper::optimizeMemcpy
optimizeMemcpy(S, MI, Dst, Src, KnownLen, DstAlign, SrcAlign, IsVolatile) ==
    LET slot == ChangeableSlot(S, Dst)
        Alignment == commonAlignment(DstAlign, SrcAlign)
        Limit == TGT.MaxStores["G_MEMCPY"]
        plan == findGISelOptimalMemOpLowering(Limit,
                    MemOp_Copy(KnownLen, slot.can, Alignment, SrcAlign, IsVolatile))
        S1 == RaiseSlotAlignment(S, slot, Alignment, plan.MemOps)
        S2 == MemcpyPairs(setInstr(S1, MI), Dst, Src, plan.MemOps, 1, 0, KnownLen,
                          <<InstOf(S, MI).align, InstOf(S, MI).salign>>)
        S3 == [S2 EXCEPT !.ins = S.ins]
    IN  IF ~plan.ok THEN Result(S, FALSE, S.code, MemInfo(Limit, plan))
        ELSE Result(eraseFromParent(S3, MI), TRUE, S.code, MemInfo(Limit, plan))

\* the two loops of optimizeMemmove: [S, LoadVals]
RECURSIVE MemmoveLoads(_, _, _, _, _, _, _)
MemmoveLoads(S, Src, MemOps, I, CurrOffset, LoadVals, align) ==
    IF I > Len(MemOps) THEN [S |-> S, LoadVals |-> LoadVals]
    ELSE
      LET CopyTy == MemOps[I]
          lp == IF CurrOffset # 0 THEN MIB_buildOffsetPtr(S, Src, CurrOffset)
                ELSE [S |-> S, Offset |-> 0, Ptr |-> Src]
          S1 == MIB_buildLoad(lp.S, CopyTy, lp.Ptr, align, CurrOffset)
      IN  MemmoveLoads(S1, Src, MemOps, I + 1, CurrOffset + getSizeInBytes(CopyTy),
                       Append(LoadVals, LastReg(S1)), align)

RECURSIVE MemmoveStores(_, _, _, _, _, _, _, _)
MemmoveStores(S, Dst, Src, MemOps, I, CurrOffset, LoadVals, align) ==
    IF I > Len(MemOps) THEN S
    ELSE
      LET CopyTy == MemOps[I]
          sp == IF CurrOffset # 0
                THEN LET S1 == MIB_buildConstant(S, Scalar(getSizeInBits(S.ty[Src])),
                                                 CurrOffset)
                         S2 == MIB_build(S1, "G_PTR_ADD", S.ty[Src], <<Dst, LastReg(S1)>>)
                     IN  [S |-> S2, Ptr |-> LastReg(S2)]
                ELSE [S |-> S, Ptr |-> Dst]
          S3 == MIB_buildStore(sp.S, LoadVals[I], sp.Ptr, getSizeInBytes(CopyTy), align,
                               CurrOffset)
      IN  MemmoveStores(S3, Dst, Src, MemOps, I + 1, CurrOffset + getSizeInBytes(CopyTy),
                        LoadVals, align)

\* A variant that stores each value as soon as it is loaded.
optimizeMemmoveInterleaved(S, MI, Dst, Src, KnownLen, DstAlign, SrcAlign, IsVolatile) ==
    LET slot == ChangeableSlot(S, Dst)
        Alignment == commonAlignment(DstAlign, SrcAlign)
        Limit == TGT.MaxStores["G_MEMMOVE"]
        plan == findGISelOptimalMemOpLowering(Limit,
                    MemOp_Copy(KnownLen, slot.can, Alignment, SrcAlign, TRUE))
        S1 == RaiseSlotAlignment(S, slot, Alignment, plan.MemOps)
        S2 == MemcpyPairs(setInstr(S1, MI), Dst, Src, plan.MemOps, 1, 0, KnownLen,
                          <<InstOf(S, MI).align, InstOf(S, MI).salign>>)
        S3 == [S2 EXCEPT !.ins = S.ins]
    IN  IF ~plan.ok THEN Result(S, FALSE, S.code, MemInfo(Limit, plan))
        ELSE Result(eraseFromParent(S3, MI), TRUE, S.code, MemInfo(Limit, plan))

\* CombinerHelper::optimizeMemmove
optimizeMemmove(S, MI, Dst, Src, KnownLen, DstAlign, SrcAlign, IsVolatile) ==
    LET slot == ChangeableSlot(S, Dst)
        Alignment == commonAlignment(DstAlign, SrcAlign)
        Limit == TGT.MaxStores["G_MEMMOVE"]
        plan == findGISelOptimalMemOpLowering(Limit,
                    MemOp_Copy(KnownLen, slot.can, Alignment, SrcAlign, TRUE))
        S1 == RaiseSlotAlignment(S, slot, Alignment, plan.MemOps)
        l == MemmoveLoads(setInstr(S1, MI), Src, plan.MemOps, 1, 0, <<>>,
                          InstOf(S, MI).salign)
        S2 == MemmoveStores(l.S, Dst, Src, plan.MemOps, 1, 0, l.LoadVals,
                            InstOf(S, MI).align)
        S3 == [S2 EXCEPT !.ins = S.ins]
    IN  IF ~plan.ok THEN Result(S, FALSE, S.code, MemInfo(Limit, plan))
        ELSE Result(eraseFromParent(S3, MI), TRUE, S.code, MemInfo(Limit, plan))

MemCpyFamily == {"G_MEMCPY", "G_MEMMOVE", "G_MEMSET"}

\* A variant that reports a zero-length operation as done and leaves it.
ZeroLengthKept(S, MI) == Result(S, TRUE, S.code, MemInfo(0, NoPlan))
\* tryCombineMemCpyFamily, KnownLen == 0: the operation is erased
ZeroLength(S, MI) == Result(eraseFromParent(S, MI), TRUE, S.code, MemInfo(0, NoPlan))

\* A variant that lowers volatile operations too.
tryCombineMemCpyFamilyVolatile(S, MI, MaxLen) ==
    LET mi == InstOf(S, MI)
        Dst == Operand(S, MI, 0)
        Src == Operand(S, MI, 1)
        LenVRegAndVal == getConstantVRegVal(S, Operand(S, MI, 2))
        KnownLen == LenVRegAndVal.Value
        none == MemInfo(0, NoPlan)
    IN  [(IF ~LenVRegAndVal.ok THEN Result(S, FALSE, S.code, none)
          ELSE IF KnownLen = 0 THEN ZeroLength(S, MI)
          ELSE IF MaxLen # 0 /\ KnownLen > MaxLen THEN Result(S, FALSE, S.code, none)
          ELSE IF mi.opc = "G_MEMCPY"
          THEN optimizeMemcpy(S, MI, Dst, Src, KnownLen, mi.align, mi.salign, mi.vol)
          ELSE IF mi.opc = "G_MEMMOVE"
          THEN optimizeMemmove(S, MI, Dst, Src, KnownLen, mi.align, mi.salign, mi.vol)
          ELSE optimizeMemset(S, MI, Dst, Src, KnownLen, mi.align, mi.vol))
         EXCEPT !.info.MaxLen = MaxLen]

\* CombinerHelper::tryCombineMemCpyFamily
tryCombineMemCpyFamily(S, MI, MaxLen) ==
    LET mi == InstOf(S, MI)
        Dst == Operand(S, MI, 0)
        Src == Operand(S, MI, 1)
        LenVRegAndVal == getConstantVRegVal(S, Operand(S, MI, 2))
        KnownLen == LenVRegAndVal.Value
        none == MemInfo(0, NoPlan)
    IN  [(IF mi.vol THEN Result(S, FALSE, S.code, none)
          ELSE IF ~LenVRegAndVal.ok THEN Result(S, FALSE, S.code, none)
          ELSE IF KnownLen = 0 THEN ZeroLength(S, MI)
          ELSE IF MaxLen # 0 /\ KnownLen > MaxLen THEN Result(S, FALSE, S.code, none)
          ELSE IF mi.opc = "G_MEMCPY"
          THEN optimizeMemcpy(S, MI, Dst, Src, KnownLen, mi.align, mi.salign, mi.vol)
          ELSE IF mi.opc = "G_MEMMOVE"
          THEN optimizeMemmove(S, MI, Dst, Src, KnownLen, mi.align, mi.salign, mi.vol)
          ELSE optimizeMemset(S, MI, Dst, Src, KnownLen, mi.align, mi.vol))
         EXCEPT !.info.MaxLen = MaxLen]

-----------------------------------------------------------------------------
\* Shifts by a constant: narrowing of a wide shift to half the width.

\* an int64_t read as unsigned; 2^30 stands for 2^32
AsUnsigned(v) == IF v < 0 THEN v + 2^30 ELSE v

\* CombinerHelper::matchCombineShiftToUnmerge: [ok, ShiftVal]
matchCombineShiftToUnmerge(S, MI, TargetShiftSize) ==
    LET Ty == S.ty[Operand(S, MI, 0)]
        Size == getSizeInBits(Ty)
        MaybeImmVal == getConstantVRegVal(S, Operand(S, MI, 2))
        ShiftVal == AsUnsigned(MaybeImmVal.Value)
    IN  IF isVector(Ty) THEN [ok |-> FALSE, ShiftVal |-> 0]
        ELSE IF Size <= TargetShiftSize THEN [ok |-> FALSE, ShiftVal |-> 0]
        ELSE IF ~MaybeImmVal.ok THEN [ok |-> FALSE, ShiftVal |-> 0]
        ELSE [ok |-> ShiftVal >= Size \div 2 /\ ShiftVal < Size, ShiftVal |-> ShiftVal]

\* MachineIRBuilder::buildUnmerge(LLT, Register): the low part is the first
\* result, the high part the last
buildUnmerge(S, ty, src) ==
    LET S1 == createGenericVirtualRegister(createGenericVirtualRegister(S, ty), ty)
    IN  buildInstr(S1, "G_UNMERGE_VALUES", <<LastReg(S1) - 1, LastReg(S1)>>, <<src>>)

\* buildLShr / buildShl / buildAShr of a register by buildConstant(ty, amt):
\* the constant is built first
buildShiftByConstant(S, opc, ty, reg, amt) ==
    LET S1 == MIB_buildConstant(S, ty, amt)
    IN  MIB_build(S1, opc, ty, <<reg, LastReg(S1)>>)

\* A variant that shifts the half by the whole amount.
NarrowShiftAmtWhole(ShiftVal, HalfSize) == ShiftVal

\* "unsigned NarrowShiftAmt = ShiftVal - HalfSize"
NarrowShiftAmt(ShiftVal, HalfSize) == ShiftVal - HalfSize

\* the G_LSHR and G_SHL branches of applyCombineShiftToUnmerge: U is the
\* state after the unmerge, Half the half that is kept
NarrowLogical(U, opc, HalfTy, Half, Amt, DstReg) ==
    LET Merge(N, Narrowed) ==
          LET Z == MIB_buildConstant(N, HalfTy, 0)
          IN  IF opc = "G_LSHR" THEN buildMerge(Z, DstReg, <<Narrowed, LastReg(Z)>>)
              ELSE buildMerge(Z, DstReg, <<LastReg(Z), Narrowed>>)
        Shifted(N) == Merge(N, LastReg(N))
    IN  IF Amt # 0 THEN Shifted(buildShiftByConstant(U, opc, HalfTy, Half, Amt))
        ELSE Merge(U, Half)

\* the G_ASHR branch of applyCombineShiftToUnmerge
NarrowArithmetic(U, HalfTy, HiHalf, ShiftVal, Size, DstReg) ==
    LET HalfSize == Size \div 2
        Both(L, Hi) == buildMerge(L, DstReg, <<LastReg(L), Hi>>)
        WithHi(H, Hi) ==
          IF ShiftVal = HalfSize THEN buildMerge(H, DstReg, <<HiHalf, Hi>>)
          ELSE IF ShiftVal = Size - 1 THEN buildMerge(H, DstReg, <<Hi, Hi>>)
          ELSE Both(buildShiftByConstant(H, "G_ASHR", HalfTy, HiHalf,
                                         ShiftVal - HalfSize), Hi)
        Built(H) == WithHi(H, LastReg(H))
    IN  Built(buildShiftByConstant(U, "G_ASHR", HalfTy, HiHalf, HalfSize - 1))

\* CombinerHelper::applyCombineShiftToUnmerge
applyCombineShiftToUnmerge(S, MI, ShiftVal) ==
    LET DstReg == Operand(S, MI, 0)
        SrcReg == Operand(S, MI, 1)
        Size == getSizeInBits(S.ty[SrcReg])
        HalfSize == Size \div 2
        HalfTy == Scalar(HalfSize)
        Narrow(U, Lo, Hi) ==
          IF Opcode(S, MI) = "G_LSHR"
          THEN NarrowLogical(U, "G_LSHR", HalfTy, Hi, NarrowShiftAmt(ShiftVal, HalfSize),
                             DstReg)
          ELSE IF Opcode(S, MI) = "G_SHL"
          THEN NarrowLogical(U, "G_SHL", HalfTy, Lo, NarrowShiftAmt(ShiftVal, HalfSize),
                             DstReg)
          ELSE NarrowArithmetic(U, HalfTy, Hi, ShiftVal, Size, DstReg)
        Unmerged(U) == Narrow(U, LastReg(U) - 1, LastReg(U))
    IN  eraseFromParent(Unmerged(buildUnmerge(setInstr(S, MI), HalfTy, SrcReg)), MI)

\* CombinerHelper::tryCombineShiftToUnmerge
tryCombineShiftToUnmerge(S, MI, TargetShiftAmount) ==
    LET Matched(m) ==
          IF m.ok
          THEN Result(applyCombineShiftToUnmerge(Tried(S, "shiftunmerge", TRUE), MI,
                                                 m.ShiftVal),
                      TRUE, S.code, [kind |-> "imm", Imm |-> m.ShiftVal])
          ELSE Result(Tried(S, "shiftunmerge", FALSE), FALSE, S.code,
                      [kind |-> "imm", Imm |-> m.ShiftVal])
    IN  Matched(matchCombineShiftToUnmerge(S, MI, TargetShiftAmount))

-----------------------------------------------------------------------------
\* Known bits: elimination of an AND with a mask that clears nothing.

\* KnownBits::Zero of register r as the oracle reports it; a register the
\* oracle has no fact about has no bit known zero
getKnownZeroes(r) == IF r \in DOMAIN KB.Zero THEN KB.Zero[r] ELSE 0

\* APInt(bits, Cst): the constant truncated to the width
APIntOf(bits, Cst) == Cst % Pow2(bits)
\* APInt::operator~
APIntNot(bits, v) == Pow2(bits) - 1 - v
\* APInt::isMask(): a non-empty run of ones starting at bit 0
isMask(v) == v # 0 /\ isPowerOf2_32(v + 1)

\* GISelKnownBits::maskedValueIsZero(R, Mask): Mask.isSubsetOf(Known.Zero)
maskedValueIsZero(bits, r, Mask) ==
    \A i \in 0..(bits - 1) : Bit(Mask, i) = 1 => Bit(getKnownZeroes(r), i) = 1

\* A variant that asks the oracle about the mask instead of its complement.
matchAndWithMaskItself(S, MI) ==
    LET Replacement == Operand(S, MI, 1)
        AndDst == Operand(S, MI, 0)
        DstTy == S.ty[AndDst]
        Cst == getConstantVRegVal(S, Operand(S, MI, 2))
        Mask == APIntOf(getSizeInBits(DstTy), Cst.Value)
    IN  IF ~KB.present THEN [ok |-> FALSE, Replacement |-> 0]
        ELSE IF isVector(DstTy) THEN [ok |-> FALSE, Replacement |-> Replacement]
        ELSE IF ~canReplaceReg(S, AndDst, Replacement)
        THEN [ok |-> FALSE, Replacement |-> Replacement]
        ELSE IF ~Cst.ok THEN [ok |-> FALSE, Replacement |-> Replacement]
        ELSE IF ~isMask(Mask) THEN [ok |-> FALSE, Replacement |-> Replacement]
        ELSE [ok |-> maskedValueIsZero(getSizeInBits(DstTy), Replacement, Mask),
              Replacement |-> Replacement]

\* CombinerHelper::matchAndWithTrivialMask: [ok, Replacement]
matchAndWithTrivialMask(S, MI) ==
    LET Replacement == Operand(S, MI, 1)
        AndDst == Operand(S, MI, 0)
        DstTy == S.ty[AndDst]
        Cst == getConstantVRegVal(S, Operand(S, MI, 2))
        Mask == APIntOf(getSizeInBits(DstTy), Cst.Value)
    IN  IF ~KB.present THEN [ok |-> FALSE, Replacement |-> 0]
        ELSE IF isVector(DstTy) THEN [ok |-> FALSE, Replacement |-> Replacement]
        ELSE IF ~canReplaceReg(S, AndDst, Replacement)
        THEN [ok |-> FALSE, Replacement |-> Replacement]
        ELSE IF ~Cst.ok THEN [ok |-> FALSE, Replacement |-> Replacement]
        ELSE IF ~isMask(Mask) THEN [ok |-> FALSE, Replacement |-> Replacement]
        ELSE [ok |-> maskedValueIsZero(getSizeInBits(DstTy), Replacement,
                                       APIntNot(getSizeInBits(DstTy), Mask)),
              Replacement |-> Replacement]

\* CombinerHelper::replaceSingleDefInstWithReg
replaceSingleDefInstWithReg(S, MI, Replacement) ==
    IF ~canReplaceReg(S, Def0(S, MI), Replacement) THEN [S EXCEPT !.crashed = TRUE]
    ELSE replaceRegWith(eraseFromParent(S, MI), Def0(S, MI), Replacement)

\* matchAndWithTrivialMask and, when it matches, replaceSingleDefInstWithReg
tryAndWithTrivialMask(S, MI) ==
    LET Matched(m) ==
          IF m.ok
          THEN Result(replaceSingleDefInstWithReg(Tried(S, "andmask", TRUE), MI,
                                                  m.Replacement),
                      TRUE, S.code, [kind |-> "reg", Reg |-> m.Replacement])
          ELSE Result(Tried(S, "andmask", FALSE), FALSE, S.code,
                      [kind |-> "reg", Reg |-> m.Replacement])
    IN  Matched(matchAndWithTrivialMask(S, MI))

-----------------------------------------------------------------------------
\* Hoisting a logic operation over two hands of the same opcode (the matcher).

\* CombinerHelper::isLegalOrBeforeLegalizer for a query on one scalar type
isLegalOrBeforeLegalizer(opc, ty) == ~LI \/ <<opc, getSizeInBits(ty), 0>> \in legal

\* CombinerHelper::matchEqualDefs on two register operands: one defining
\* instruction gives equal values only for the same register; two defining
\* instructions give equal values when they compute the same thing
matchEqualDefs(S, r1, r2) ==
    LET I1 == getDefIgnoringCopies(S, r1)
        I2 == getDefIgnoringCopies(S, r2)
    IN  IF I1 = 0 \/ I2 = 0 THEN FALSE
        ELSE IF I1 = I2 THEN r1 = r2
        ELSE IF InstOf(S, I1).mmo # 0 THEN FALSE
        ELSE /\ Opcode(S, I1) = Opcode(S, I2)
             /\ InstOf(S, I1).uses = InstOf(S, I2).uses
             /\ InstOf(S, I1).imm = InstOf(S, I2).imm
             /\ InstOf(S, I1).pred = InstOf(S, I2).pred

\* CombinerHelper::matchHoistLogicOpWithSameOpcodeHands: [S, ok, InstrsToBuild]
matchHoistLogicOpWithSameOpcodeHands(S, MI) ==
    LET LogicOpcode == Opcode(S, MI)
        Dst == Operand(S, MI, 0)
        LeftHandInst == getDefIgnoringCopies(S, Operand(S, MI, 1))
        RightHandInst == getDefIgnoringCopies(S, Operand(S, MI, 2))
        HandOpcode == Opcode(S, LeftHandInst)
        X == InstOf(S, LeftHandInst).uses[1]
        Y == InstOf(S, RightHandInst).uses[1]
        none == [S |-> S, ok |-> FALSE, InstrsToBuild |-> <<>>]
        Steps(S1, extra) ==
            [S |-> S1, ok |-> TRUE,
             InstrsToBuild |->
                <<[Opcode |-> LogicOpcode, Ops |-> <<LastReg(S1), X, Y>>],
                  [Opcode |-> HandOpcode, Ops |-> <<Dst, LastReg(S1)>> \o extra]>>]
    IN  IF ~hasOneNonDBGUse(S, Operand(S, MI, 1)) \/ ~hasOneNonDBGUse(S, Operand(S, MI, 2))
        THEN none
        ELSE IF LeftHandInst = 0 \/ RightHandInst = 0 THEN none
        ELSE IF HandOpcode # Opcode(S, RightHandInst) THEN none
        ELSE IF InstOf(S, LeftHandInst).uses = <<>> \/ InstOf(S, RightHandInst).uses = <<>>
        THEN none
        ELSE IF S.ty[X] # S.ty[Y] THEN none
        ELSE IF ~isLegalOrBeforeLegalizer(LogicOpcode, S.ty[X]) THEN none
        ELSE IF HandOpcode \in {"G_ANYEXT", "G_SEXT", "G_ZEXT"}
        THEN Steps(createGenericVirtualRegister(S, S.ty[X]), <<>>)
        ELSE IF HandOpcode \in {"G_AND", "G_ASHR", "G_LSHR", "G_SHL"}
        THEN IF ~matchEqualDefs(S, InstOf(S, LeftHandInst).uses[2],
                                InstOf(S, RightHandInst).uses[2])
             THEN none
             ELSE Steps(createGenericVirtualRegister(S, S.ty[X]),
                        <<InstOf(S, LeftHandInst).uses[2]>>)
        ELSE none

\* A matcher called twice in a row on one instruction, no applier in between:
\* what each call handed back
MatchedTwice(S2, first, second) ==
    Result(S2, first.ok, S2.code, [kind |-> "twice", first |-> first, second |-> second])

matchTwice(S, MI, matcher) ==
    LET Ops(m) == [ok |-> m.ok, IsUndef |-> m.IsUndef, Ops |-> m.Ops]
        Build(m) == [ok |-> m.ok, InstrsToBuild |-> m.InstrsToBuild]
        ConcatAgain(m1) ==
            LET Both(m2) == MatchedTwice(m2.S, Ops(m1), Ops(m2))
            IN  Both(matchCombineConcatVectors(m1.S, MI))
        ShuffleAgain(m1) ==
            LET Both(m2) == MatchedTwice(m2.S, Ops(m1), Ops(m2))
            IN  Both(matchCombineShuffleVector(m1.S, MI))
        HoistAgain(m1) ==
            LET Both(m2) == MatchedTwice(m2.S, Build(m1), Build(m2))
            IN  Both(matchHoistLogicOpWithSameOpcodeHands(m1.S, MI))
    IN  CASE matcher = "matchCombineConcatVectors" ->
                ConcatAgain(matchCombineConcatVectors(S, MI))
          [] matcher = "matchCombineShuffleVector" ->
                ShuffleAgain(matchCombineShuffleVector(S, MI))
          [] matcher = "matchHoistLogicOpWithSameOpcodeHands" ->
                HoistAgain(matchHoistLogicOpWithSameOpcodeHands(S, MI))

-----------------------------------------------------------------------------
\* Left shift of an extended value, done in the narrow type.

\* APInt::countLeadingOnes of v on bits bits
RECURSIVE countLeadingOnes(_, _)
countLeadingOnes(v, bits) ==
    IF bits = 0 \/ Bit(v, bits - 1) = 0 THEN 0
    ELSE 1 + countLeadingOnes(v, bits - 1)

\* CombinerHelper::matchCombineShlOfExtend: [ok, Reg, Imm, asserted]; asserted
\* when the assertion on the known-bits analysis fails
matchCombineShlOfExtend(S, MI) ==
    LET LHS == Operand(S, MI, 1)
        ExtDef == getVRegDef(S, LHS)
        ExtSrc == InstOf(S, ExtDef).uses[1]
        MaybeShiftAmtVal == getConstantVRegVal(S, Operand(S, MI, 2))
        SrcTy == S.ty[ExtSrc]
        none == [ok |-> FALSE, Reg |-> 0, Imm |-> 0, asserted |-> FALSE]
    IN  IF ~KB.present THEN [ok |-> FALSE, Reg |-> 0, Imm |-> 0, asserted |-> TRUE]
        ELSE IF ExtDef = 0 \/ Opcode(S, ExtDef) \notin {"G_ANYEXT", "G_ZEXT", "G_SEXT"}
        THEN none
        ELSE IF ~MaybeShiftAmtVal.ok THEN none
        ELSE IF LI /\ ~isLegalOrBeforeLegalizer("G_SHL", SrcTy) THEN none
        ELSE [ok |-> countLeadingOnes(getKnownZeroes(ExtSrc), getSizeInBits(SrcTy))
                        >= MaybeShiftAmtVal.Value,
              Reg |-> ExtSrc, Imm |-> MaybeShiftAmtVal.Value, asserted |-> FALSE]

\* CombinerHelper::applyCombineShlOfExtend
applyCombineShlOfExtend(S, MI, MatchData) ==
    LET Widened(S1) == buildInstr(S1, "G_ZEXT", <<Operand(S, MI, 0)>>, <<LastReg(S1)>>)
    IN  eraseFromParent(Widened(buildShiftByConstant(setInstr(S, MI), "G_SHL",
                                                     S.ty[MatchData.Reg], MatchData.Reg,
                                                     MatchData.Imm)),
                        MI)

\* matchCombineShlOfExtend and, when it matches, applyCombineShlOfExtend
tryCombineShlOfExtend(S, MI) ==
    LET Matched(m) ==
          IF m.asserted
          THEN Result([S EXCEPT !.crashed = TRUE], FALSE, S.code, NoInfo)
          ELSE IF m.ok
          THEN Result(applyCombineShlOfExtend(Tried(S, "shlext", TRUE), MI,
                                              [Reg |-> m.Reg, Imm |-> m.Imm]),
                      TRUE, S.code, [kind |-> "regimm", Reg |-> m.Reg, Imm |-> m.Imm])
          ELSE Result(Tried(S, "shlext", FALSE), FALSE, S.code,
                      [kind |-> "regimm", Reg |-> m.Reg, Imm |-> m.Imm])
    IN  Matched(matchCombineShlOfExtend(S, MI))

-----------------------------------------------------------------------------
\* Sign extension in a register of a loaded value, done by the load.

\* A variant that takes the width of the sign extension as the new size.
matchSextInRegOfLoadWidening(S, MI) ==
    LET SrcReg == Operand(S, MI, 1)
        LoadDef == getOpcodeDef(S, "G_LOAD", SrcReg)
        MMO == InstOf(S, LoadDef)
        NewSizeBits == InstOf(S, MI).imm
        none == [ok |-> FALSE, LoadReg |-> 0, NewSizeBits |-> 0]
    IN  IF isVector(S.ty[Operand(S, MI, 0)]) THEN none
        ELSE IF LoadDef = 0 THEN none
        ELSE IF ~hasOneNonDBGUse(S, Def0(S, LoadDef)) THEN none
        ELSE IF MMO.atomic \/ MMO.vol THEN none
        ELSE IF NewSizeBits < 8 THEN none
        ELSE IF ~isPowerOf2_32(NewSizeBits) THEN none
        ELSE [ok |-> TRUE, LoadReg |-> Def0(S, LoadDef), NewSizeBits |-> NewSizeBits]

\* CombinerHelper::matchSextInRegOfLoad: [ok, LoadReg, NewSizeBits]
matchSextInRegOfLoad(S, MI) ==
    LET SrcReg == Operand(S, MI, 1)
        LoadDef == getOpcodeDef(S, "G_LOAD", SrcReg)
        MMO == InstOf(S, LoadDef)
        NewSizeBits == IF InstOf(S, MI).imm < MMO.mmo THEN InstOf(S, MI).imm ELSE MMO.mmo
        none == [ok |-> FALSE, LoadReg |-> 0, NewSizeBits |-> 0]
    IN  IF isVector(S.ty[Operand(S, MI, 0)]) THEN none
        ELSE IF LoadDef = 0 THEN none
        ELSE IF ~hasOneNonDBGUse(S, Def0(S, LoadDef)) THEN none
        ELSE IF MMO.atomic \/ MMO.vol THEN none
        ELSE IF NewSizeBits < 8 THEN none
        ELSE IF ~isPowerOf2_32(NewSizeBits) THEN none
        ELSE [ok |-> TRUE, LoadReg |-> Def0(S, LoadDef), NewSizeBits |-> NewSizeBits]

\* CombinerHelper::applySextInRegOfLoad: the new memory operand is the load's
\* with the size of ScalarSizeBits / 8 bytes
applySextInRegOfLoad(S, MI, LoadReg, ScalarSizeBits) ==
    LET LoadDef == InstOf(S, getVRegDef(S, LoadReg))
        Sized(S1) ==
            [S1 EXCEPT !.code[IdxOf(S1, LastBuilt(S1))] =
                          [@ EXCEPT !.mmo = 8 * (ScalarSizeBits \div 8),
                                    !.align = LoadDef.align,
                                    !.vol = LoadDef.vol,
                                    !.atomic = LoadDef.atomic]]
    IN  eraseFromParent(Sized(buildInstr(setInstr(S, MI), "G_SEXTLOAD",
                                         <<Operand(S, MI, 0)>>, <<LoadDef.uses[1]>>)),
                        MI)

\* matchSextInRegOfLoad and, when it matches, applySextInRegOfLoad
trySextInRegOfLoad(S, MI) ==
    LET Matched(m) ==
          IF m.ok
          THEN Result(applySextInRegOfLoad(Tried(S, "sextinreg", TRUE), MI, m.LoadReg,
                                           m.NewSizeBits),
                      TRUE, S.code,
                      [kind |-> "regimm", Reg |-> m.LoadReg, Imm |-> m.NewSizeBits])
          ELSE Result(Tried(S, "sextinreg", FALSE), FALSE, S.code,
                      [kind |-> "regimm", Reg |-> m.LoadReg, Imm |-> m.NewSizeBits])
    IN  Matched(matchSextInRegOfLoad(S, MI))


-----------------------------------------------------------------------------
\* The functions the combiner is run on.

Opt(c, s) == IF c THEN s ELSE <<>>
WithMmo(mi, m) == [mi EXCEPT !.mmo = m]
WithImm(mi, v) == [mi EXCEPT !.imm = v]
WithPred(mi, p) == [mi EXCEPT !.pred = p]
WithMBB(mi, bb) == [mi EXCEPT !.mbbs = <<bb>>]
WithMask(mi, m) == [mi EXCEPT !.mask = m]

RECURSIVE MaxId(_)
MaxId(c) == IF c = <<>> THEN 0
            ELSE LET m == MaxId(Tail(c)) IN IF Head(c).id > m THEN Head(c).id ELSE m

NoUB == [def |-> "X", use |-> "X"]

\* a target without a policy and a frame whose single object is fixed
NoTarget == [OptimalTy |-> LLTNone, Misaligned |-> FALSE, Fast |-> FALSE,
             TruncFree |-> FALSE, Realign |-> FALSE, StackAlign |-> 0,
             MaxStores |-> [k \in MemCpyFamily |-> 0]]
NoFrame == [i \in {0} |-> [align |-> 1, fixed |-> TRUE]]
\* a combiner constructed without a known-bits analysis
NoKB == [present |-> FALSE, Zero |-> <<>>]

Setup(c, ty, bank, li, lg, mdt, fli, ub) ==
    [code |-> c, ty |-> ty, bank |-> bank, LI |-> li, legal |-> lg, MDT |-> mdt,
     FLI |-> fli, TLI |-> FALSE, TGT |-> NoTarget, MFI |-> NoFrame, KB |-> NoKB,
     ub |-> ub]

NoBanks(ty) == [r \in DOMAIN ty |-> 0]
Plain(c, ty) == Setup(c, ty, NoBanks(ty), FALSE, {}, FALSE, FALSE, NoUB)

\* A load and its users.
PlainLoad == [opc |-> "G_LOAD", bits |-> 8, mem |-> 8]
OddLoads ==
    {[opc |-> "G_LOAD", bits |-> 4, mem |-> 8], [opc |-> "G_LOAD", bits |-> 24, mem |-> 24]}
ExtendingLoads ==
    {[opc |-> "G_SEXTLOAD", bits |-> 16, mem |-> 8],
     [opc |-> "G_ZEXTLOAD", bits |-> 16, mem |-> 8]}

UseKinds == (ExtOpcodes \X {32, 64}) \cup {<<"G_STORE", 0>>}
UseLists == UNION {[1..n -> UseKinds] : n \in 0..MaxUses}

AllCombos == LoadOpcodes \X {32, 64} \X {8}
LegalityOracles ==
    {[LI |-> FALSE, legal |-> {}],
     [LI |-> TRUE, legal |-> AllCombos],
     [LI |-> TRUE, legal |-> {c \in AllCombos : c[1] = "G_LOAD"}],
     [LI |-> TRUE, legal |-> {c \in AllCombos : c[1] # "G_LOAD"}],
     [LI |-> TRUE, legal |-> {c \in AllCombos : c[2] = 32}],
     [LI |-> TRUE, legal |-> {c \in AllCombos : c[2] = 64}]}

\* banked: the extends' results live in alternating register banks;
\* other: the last user sits in the next block
LoadConfigs ==
    {[o |-> o, banked |-> FALSE, other |-> FALSE] : o \in LegalityOracles}
    \cup {[o |-> [LI |-> FALSE, legal |-> {}], banked |-> b, other |-> x] :
            b \in BOOLEAN, x \in BOOLEAN}

\* the loads the rule is run on, each with the configurations that matter to it
LoadCases ==
    {[ld |-> PlainLoad, cfg |-> c] : c \in LoadConfigs}
    \cup {[ld |-> l, cfg |-> [o |-> [LI |-> FALSE, legal |-> {}], banked |-> FALSE,
                              other |-> FALSE]] : l \in OddLoads \cup ExtendingLoads}
    \cup {[ld |-> l, cfg |-> [o |-> [LI |-> TRUE, legal |-> AllCombos], banked |-> FALSE,
                              other |-> FALSE]] : l \in ExtendingLoads}

UserCode(k, u, bb) ==
    IF u[1] = "G_STORE" THEN <<MkInst(2 * k + 1, "G_STORE", <<>>, <<2, 1>>, bb)>>
    ELSE <<MkInst(2 * k + 1, u[1], <<2 + k>>, <<2>>, bb),
           MkInst(2 * k + 2, "G_STORE", <<>>, <<2 + k, 1>>, bb)>>

RECURSIVE UsersCode(_, _, _)
UsersCode(users, k, other) ==
    IF k > Len(users) THEN <<>>
    ELSE UserCode(k, users[k], IF other /\ k = Len(users) THEN 1 ELSE 0)
           \o UsersCode(users, k + 1, other)

LoadSetup(ld, users, cfg) ==
    LET n == Len(users)
        ty == [r \in 1..(2 + n) |->
                 IF r = 1 THEN Ptr0
                 ELSE IF r = 2 THEN Scalar(ld.bits)
                 ELSE IF users[r - 2][1] = "G_STORE" THEN LLTNone
                 ELSE Scalar(users[r - 2][2])]
        bank == [r \in 1..(2 + n) |-> IF cfg.banked /\ r > 2 THEN 1 + (r % 2) ELSE 0]
    IN  Setup(<<MkInst(1, "G_IMPLICIT_DEF", <<1>>, <<>>, 0),
                WithMmo(MkInst(2, ld.opc, <<2>>, <<1>>, 0), ld.mem)>>
                \o UsersCode(users, 1, cfg.other),
              ty, bank, cfg.o.LI, cfg.o.legal, FALSE, FALSE, NoUB)

LoadSetups == {LoadSetup(c.ld, us, c.cfg) : c \in LoadCases, us \in UseLists}

\* A load whose value reaches a PHI of block 3.  The PHI reads the loaded
\* value along the edge from block pa; its second operand is the loaded value
\* along the edge from block 1 (twice) or a value of block 2.  An extend in
\* the load's block makes the load a candidate; tail adds a store of the
\* loaded value to block 1.
PhiLoadSetup(ext, pa, twice, tail) ==
    Plain(<<MkInst(1, "G_IMPLICIT_DEF", <<1>>, <<>>, 0),
            WithMmo(MkInst(2, "G_LOAD", <<2>>, <<1>>, 0), 8),
            MkInst(3, ext, <<3>>, <<2>>, 0),
            MkInst(4, "G_STORE", <<>>, <<3, 1>>, 0),
            MkInst(5, "G_IMPLICIT_DEF", <<5>>, <<>>, 1),
            MkInst(6, "G_STORE", <<>>, <<5, 1>>, 1)>>
          \o Opt(tail, <<MkInst(7, "G_STORE", <<>>, <<2, 1>>, 1)>>)
          \o <<MkInst(8, "G_IMPLICIT_DEF", <<6>>, <<>>, 2),
               [MkInst(9, "PHI", <<4>>, IF twice THEN <<2, 2>> ELSE <<2, 6>>, 3)
                  EXCEPT !.mbbs = IF twice THEN <<pa, 1>> ELSE <<pa, 2>>],
               MkInst(10, "G_STORE", <<>>, <<4, 1>>, 3)>>,
          <<Ptr0, Scalar(8), Scalar(32), Scalar(8), Scalar(8), Scalar(8)>>)

PhiLoadSetups ==
    {PhiLoadSetup(e, pa, tw, tl) :
        e \in {"G_SEXT", "G_ZEXT"}, pa \in {0, 1}, tw \in BOOLEAN, tl \in BOOLEAN}

\* A copy between registers of types t1, t2 and banks b1, b2.
CopySetup(t2, b1, b2) ==
    Setup(<<MkInst(1, "G_IMPLICIT_DEF", <<1>>, <<>>, 0),
            MkInst(2, "COPY", <<2>>, <<1>>, 0),
            MkInst(3, "G_ADD", <<3>>, <<2, 2>>, 0)>>,
          <<Scalar(32), Scalar(t2), Scalar(t2)>>, <<b1, b2, 0>>,
          FALSE, {}, FALSE, FALSE, NoUB)

CopySetups == {CopySetup(t2, b1, b2) : t2 \in {32, 64}, b1 \in 0..2, b2 \in 0..2}

\* concat_vectors of two operands, each a build_vector, an undef or a load.
VecDef(id, r, k) ==
    IF k = "G_BUILD_VECTOR" THEN MkInst(id, k, <<r>>, <<1, 1>>, 0)
    ELSE IF k = "G_IMPLICIT_DEF" THEN MkInst(id, k, <<r>>, <<>>, 0)
    ELSE MkInst(id, k, <<r>>, <<1>>, 0)

ConcatSetup(ka, kb) ==
    Plain(<<WithImm(MkInst(1, "G_CONSTANT", <<1>>, <<>>, 0), 7),
            VecDef(2, 2, ka), VecDef(3, 3, kb),
            MkInst(4, "G_CONCAT_VECTORS", <<4>>, <<2, 3>>, 0),
            MkInst(5, "COPY", <<5>>, <<4>>, 0)>>,
          <<Scalar(32), Vector(2, 32), Vector(2, 32), Vector(4, 32), Vector(4, 32)>>)

VecDefKinds == {"G_BUILD_VECTOR", "G_IMPLICIT_DEF", "G_BITCAST"}
ConcatSetups == {ConcatSetup(ka, kb) : ka \in VecDefKinds, kb \in VecDefKinds}

\* shuffle_vector of two sources.
ShuffleShapes ==
    {[src |-> Vector(2, 32), dst |-> Vector(4, 32), mask |-> m] :
        m \in {<<0, 1, 2, 3>>, <<2, 3, 0, 1>>, <<0, 1, -1, -1>>, <<-1, -1, -1, -1>>,
               <<0, 1, 0, 1>>, <<1, 0, 2, 3>>, <<0, -1, 2, 3>>, <<0, 1, 2, 1>>}}
    \cup {[src |-> Scalar(32), dst |-> Vector(2, 32), mask |-> m] :
            m \in {<<0, 1>>, <<1, 1>>, <<-1, 0>>}}
    \cup {[src |-> Vector(2, 32), dst |-> Vector(2, 32), mask |-> <<0, 1>>],
          [src |-> Vector(2, 32), dst |-> Vector(3, 32), mask |-> <<0, 1, 2>>],
          [src |-> Scalar(32), dst |-> Scalar(32), mask |-> <<1>>],
          [src |-> Scalar(32), dst |-> Scalar(32), mask |-> <<-1>>]}

ShuffleSetup(sh) ==
    Plain(<<MkInst(1, "G_IMPLICIT_DEF", <<1>>, <<>>, 0),
            MkInst(2, "G_IMPLICIT_DEF", <<2>>, <<>>, 0),
            WithMask(MkInst(3, "G_SHUFFLE_VECTOR", <<3>>, <<1, 2>>, 0), sh.mask),
            MkInst(4, "COPY", <<4>>, <<3>>, 0)>>,
          <<sh.src, sh.src, sh.dst, sh.dst>>)

ShuffleSetups == {ShuffleSetup(sh) : sh \in ShuffleShapes}

\* A block that ends in a conditional and an unconditional branch.
BrVariants == {"icmp", "trunc", "twouses", "nobrcond", "operands"}

BrSetup(p, condTgt, brTgt, v) ==
    Plain(<<WithImm(MkInst(1, "G_CONSTANT", <<1>>, <<>>, 0), 7)>>
            \o Opt(v = "operands", <<MkInst(6, "G_IMPLICIT_DEF", <<3>>, <<>>, 0)>>)
            \o <<IF v = "trunc" THEN MkInst(2, "G_TRUNC", <<2>>, <<1>>, 0)
                 ELSE WithPred(MkInst(2, "G_ICMP", <<2>>,
                                      IF v = "operands" THEN <<1, 3>> ELSE <<1, 1>>, 0), p)>>
            \o Opt(v = "twouses", <<MkInst(3, "G_ZEXT", <<3>>, <<2>>, 0)>>)
            \o Opt(v # "nobrcond", <<WithMBB(MkInst(4, "G_BRCOND", <<>>, <<2>>, 0), condTgt)>>)
            \o <<WithMBB(MkInst(5, "G_BR", <<>>, <<>>, 0), brTgt)>>,
          <<Scalar(32), Scalar(1), Scalar(32)>>)

BrSetups == {BrSetup(p, c, b, v) : p \in {"eq", "slt"}, c \in 1..2, b \in 1..2,
                                   v \in BrVariants}

\* A comparison and its negation by xor.
NotCmpSetup(bits, cst, banks, extra) ==
    Setup(<<WithImm(MkInst(1, "G_CONSTANT", <<1>>, <<>>, 0), 5),
            WithPred(MkInst(2, "G_ICMP", <<2>>, <<1, 1>>, 0), "sgt"),
            WithImm(MkInst(3, "G_CONSTANT", <<3>>, <<>>, 0), cst),
            MkInst(4, "G_XOR", <<4>>, <<2, 3>>, 0)>>
            \o Opt(extra, <<MkInst(5, "G_ZEXT", <<5>>, <<2>>, 0)>>)
            \o <<MkInst(6, "G_ZEXT", <<6>>, <<4>>, 0)>>,
          <<Scalar(32), Scalar(bits), Scalar(bits), Scalar(bits), Scalar(64), Scalar(64)>>,
          <<0, banks[1], 0, banks[2], 0, 0>>, FALSE, {}, FALSE, FALSE, NoUB)

NotCmpSetups == {NotCmpSetup(b, c, bk, e) : b \in {1, 32}, c \in {1, -1, 0},
                    bk \in {<<0, 0>>, <<1, 1>>, <<1, 2>>}, e \in BOOLEAN}


\* A memory access next to a pointer-add.  Registers: 1 base, 2 offset,
\* 3 address (the pointer-add), 4 the value loaded or stored, 5 another user
\* of the address.
\*   shape "pre":  the access goes through the pointer-add's result
\*   shape "post": the access goes through the base
IndexShapes ==
    {[shape |-> sh, mem |-> m, val |-> v, extra |-> e, addAfter |-> a, offFirst |-> f,
      base |-> b] :
        sh \in {"pre", "post"}, m \in {"G_LOAD", "G_STORE"}, v \in {1, 3, 4},
        e \in {"none", "before", "after"}, a \in BOOLEAN, f \in BOOLEAN,
        b \in {"G_IMPLICIT_DEF", "G_FRAME_INDEX"}}

\* the shapes that are functions in SSA form, each listed once
IndexShapeOk(x) ==
    /\ x.mem = "G_LOAD" => x.val = 4
    /\ x.shape = "pre" => ~x.addAfter
    /\ x.addAfter => (x.val # 3 /\ x.extra # "before")
    /\ x.base = "G_FRAME_INDEX" => ~x.offFirst

IndexCode(x) ==
    LET baseDef == MkInst(1, x.base, <<1>>, <<>>, 0)
        offDef == WithImm(MkInst(2, "G_CONSTANT", <<2>>, <<>>, 0), 8)
        ptrAdd == MkInst(3, "G_PTR_ADD", <<3>>, <<1, 2>>, 0)
        addr == IF x.shape = "pre" THEN 3 ELSE 1
        memOp == IF x.mem = "G_LOAD"
                 THEN WithMmo(MkInst(5, "G_LOAD", <<4>>, <<addr>>, 0), 32)
                 ELSE WithMmo(MkInst(5, "G_STORE", <<>>, <<x.val, addr>>, 0), 32)
        extra == MkInst(6, "G_PTRTOINT", <<5>>, <<3>>, 0)
    IN  (IF x.offFirst THEN <<offDef, baseDef>> ELSE <<baseDef, offDef>>)
          \o Opt(x.mem = "G_STORE" /\ x.val = 4, <<MkInst(4, "G_IMPLICIT_DEF", <<4>>, <<>>, 0)>>)
          \o Opt(~x.addAfter, <<ptrAdd>>)
          \o Opt(x.extra = "before", <<extra>>)
          \o <<memOp>>
          \o Opt(x.addAfter, <<ptrAdd>>)
          \o Opt(x.extra = "after", <<extra>>)

Builds == {NoUB, [def |-> "T", use |-> "F"], [def |-> "F", use |-> "F"],
           [def |-> "T", use |-> "T"]}

IndexConfigs ==
    {[MDT |-> FALSE, FLI |-> FALSE, TLI |-> FALSE, ub |-> NoUB],
     [MDT |-> TRUE, FLI |-> FALSE, TLI |-> TRUE, ub |-> NoUB],
     [MDT |-> TRUE, FLI |-> TRUE, TLI |-> FALSE, ub |-> NoUB]}
    \cup {[MDT |-> FALSE, FLI |-> TRUE, TLI |-> FALSE, ub |-> u] : u \in Builds}

IndexSetup(x, cfg) ==
    [Setup(IndexCode(x), <<Ptr0, Scalar(64), Ptr0, Scalar(32), Scalar(64)>>,
           <<0, 0, 0, 0, 0>>, FALSE, {}, cfg.MDT, cfg.FLI, cfg.ub)
       EXCEPT !.TLI = cfg.TLI]

IndexSetups == {IndexSetup(x, cfg) : x \in {y \in IndexShapes : IndexShapeOk(y)},
                                     cfg \in IndexConfigs}

\* A bulk-memory operation: registers 1 destination, 2 source pointer or
\* byte value, 3 length.  len -1 is a length that is not a constant.
MaxLens == {0, 8}

MemTarget(opt, mis, fast, lim, realign, stack) ==
    [OptimalTy |-> opt, Misaligned |-> mis, Fast |-> fast, TruncFree |-> fast,
     Realign |-> realign, StackAlign |-> stack,
     MaxStores |-> [k \in MemCpyFamily |-> lim]]

MemTargets ==
    {MemTarget(LLTNone, FALSE, FALSE, 3, FALSE, 0),
     MemTarget(LLTNone, TRUE, TRUE, 3, FALSE, 0),
     MemTarget(Scalar(32), TRUE, TRUE, 3, FALSE, 0),
     MemTarget(Scalar(32), FALSE, FALSE, 3, FALSE, 0),
     MemTarget(Scalar(32), TRUE, FALSE, 2, FALSE, 0),
     MemTarget(Vector(4, 32), TRUE, TRUE, 2, FALSE, 0)}

StackTargets ==
    {MemTarget(LLTNone, TRUE, TRUE, 3, FALSE, 4),
     MemTarget(LLTNone, TRUE, TRUE, 3, TRUE, 4),
     MemTarget(Scalar(32), TRUE, TRUE, 3, FALSE, 4),
     MemTarget(LLTNone, TRUE, TRUE, 1, TRUE, 4)}

MemShapes ==
    {[kind |-> k, len |-> l[1], vol |-> l[2], aligns |-> a, dst |-> "plain", slot |-> 1] :
        k \in MemCpyFamily,
        l \in {<<0, FALSE>>, <<3, FALSE>>, <<7, FALSE>>, <<9, FALSE>>, <<-1, FALSE>>,
               <<9, TRUE>>},
        a \in {<<4, 4>>, <<1, 8>>}}

StackShapes ==
    {[kind |-> k, len |-> 9, vol |-> FALSE, aligns |-> <<4, 4>>, dst |-> d[1],
      slot |-> d[2]] :
        k \in MemCpyFamily, d \in {<<"slot", 4>>, <<"slot", 16>>, <<"fixed", 4>>}}

MemSetup(x, t) ==
    LET memset == x.kind = "G_MEMSET"
        dstDef == IF x.dst = "plain" THEN MkInst(1, "G_IMPLICIT_DEF", <<1>>, <<>>, 0)
                  ELSE MkInst(1, "G_FRAME_INDEX", <<1>>, <<>>, 0)
        srcDef == IF memset /\ x.aligns[1] = 4
                  THEN WithImm(MkInst(2, "G_CONSTANT", <<2>>, <<>>, 0), 2)
                  ELSE MkInst(2, "G_IMPLICIT_DEF", <<2>>, <<>>, 0)
        lenDef == IF x.len < 0 THEN MkInst(3, "G_IMPLICIT_DEF", <<3>>, <<>>, 0)
                  ELSE WithImm(MkInst(3, "G_CONSTANT", <<3>>, <<>>, 0), x.len)
        op == [MkInst(4, x.kind, <<>>, <<1, 2, 3>>, 0)
                 EXCEPT !.vol = x.vol, !.align = x.aligns[1],
                        !.salign = IF memset THEN 0 ELSE x.aligns[2]]
    IN  [Plain(<<dstDef, srcDef, lenDef, op>>,
               <<Ptr0, IF memset THEN Scalar(8) ELSE Ptr0, Scalar(64)>>)
           EXCEPT !.TGT = t,
                  !.MFI = [i \in {0} |-> [align |-> x.slot, fixed |-> x.dst # "slot"]]]

\* a target that allows no store at all
NoStoresTarget == MemTarget(Scalar(32), TRUE, TRUE, 0, FALSE, 0)

MemSetups ==
    {MemSetup(x, t) : x \in MemShapes, t \in MemTargets}
    \cup {MemSetup(x, NoStoresTarget) : x \in {y \in MemShapes : y.len = 0}}
    \cup {MemSetup(x, t) : x \in StackShapes, t \in StackTargets}

\* A chain of two pointer-adds, a multiplication by a constant, an extend of
\* an extend.
ChainSetup(k2, c) ==
    Plain(<<MkInst(1, "G_IMPLICIT_DEF", <<1>>, <<>>, 0),
            WithImm(MkInst(2, "G_CONSTANT", <<2>>, <<>>, 0), 4),
            MkInst(3, "G_PTR_ADD", <<3>>, <<1, 2>>, 0),
            WithImm(MkInst(4, k2, <<4>>, <<>>, 0), c),
            MkInst(5, "G_PTR_ADD", <<5>>, <<3, 4>>, 0),
            WithMmo(MkInst(6, "G_LOAD", <<6>>, <<5>>, 0), 32)>>,
          <<Ptr0, Scalar(64), Ptr0, Scalar(64), Ptr0, Scalar(32)>>)

MulSetup(c) ==
    Plain(<<MkInst(1, "G_IMPLICIT_DEF", <<1>>, <<>>, 0),
            WithImm(MkInst(2, "G_CONSTANT", <<2>>, <<>>, 0), c),
            MkInst(3, "G_MUL", <<3>>, <<1, 2>>, 0),
            MkInst(4, "COPY", <<4>>, <<3>>, 0)>>,
          <<Scalar(32), Scalar(32), Scalar(32), Scalar(32)>>)

ExtExtSetup(e1, e2) ==
    Plain(<<MkInst(1, "G_IMPLICIT_DEF", <<1>>, <<>>, 0),
            MkInst(2, e1, <<2>>, <<1>>, 0),
            MkInst(3, e2, <<3>>, <<2>>, 0),
            MkInst(4, "G_STORE", <<>>, <<3, 3>>, 0)>>,
          <<Scalar(8), Scalar(16), Scalar(32)>>)

InPlaceSetups ==
    {ChainSetup(k, c) : k \in {"G_CONSTANT", "G_IMPLICIT_DEF"}, c \in {8, 0 - 4}}
    \cup {MulSetup(c) : c \in {8, 6, 1, 0}}
    \cup {ExtExtSetup(e1, e2) : e1 \in ExtOpcodes \cup {"G_TRUNC"}, e2 \in ExtOpcodes}

\* A shift of a W-bit value by a constant: <<W, constant>>
ShiftOpcodes == {"G_SHL", "G_LSHR", "G_ASHR"}
ShiftCases ==
    ({8} \X {3, 4, 5, 7, 8, 0 - 1}) \cup ({6} \X {2, 3, 4, 5, 6})
TargetShiftSizes == {3, 8}

ShiftSetup(opc, x) ==
    Plain(<<MkInst(1, "G_IMPLICIT_DEF", <<1>>, <<>>, 0),
            WithImm(MkInst(2, "G_CONSTANT", <<2>>, <<>>, 0), x[2]),
            MkInst(3, opc, <<3>>, <<1, 2>>, 0),
            MkInst(4, "COPY", <<4>>, <<3>>, 0)>>,
          <<Scalar(x[1]), Scalar(x[1]), Scalar(x[1]), Scalar(x[1])>>)

ShiftSetups == {ShiftSetup(opc, x) : opc \in ShiftOpcodes, x \in ShiftCases}

\* %3 = G_AND %1, %2 on 4-bit scalars, %2 a constant; the oracle's known-zero
\* bits of %1; register banks of %1 and %3
AndTy == Scalar(4)
AndMasks == {0, 1, 3, 7, 0 - 1, 5, 6}
AndKnownZeroes == {0, 8, 12, 14, 4}
AndBanks == {<<0, 0>>, <<1, 1>>, <<1, 2>>}
AndSetup(mask, zero, b, present) ==
    [Plain(<<MkInst(1, "G_IMPLICIT_DEF", <<1>>, <<>>, 0),
             WithImm(MkInst(2, "G_CONSTANT", <<2>>, <<>>, 0), mask),
             MkInst(3, "G_AND", <<3>>, <<1, 2>>, 0),
             MkInst(4, "COPY", <<4>>, <<3>>, 0)>>,
           <<AndTy, AndTy, AndTy, AndTy>>)
       EXCEPT !.bank = <<b[1], 0, b[2], 0>>,
              !.KB = [present |-> present,
                      Zero |-> IF present THEN <<zero, 0, 0, 0>> ELSE <<>>]]
AndSetups ==
    {AndSetup(mask, zero, b, TRUE) :
        mask \in AndMasks, zero \in AndKnownZeroes, b \in AndBanks}
    \cup {AndSetup(3, 12, <<0, 0>>, FALSE)}

\* %7 = logic %5, %6 with both hands of one shape: extends of %1 and %2, or
\* shifts of %1 and %2 by an amount
HoistShapes == {<<"G_ZEXT", "G_ZEXT", 0, 0>>, <<"G_ZEXT", "G_SEXT", 0, 0>>,
                <<"G_SHL", "G_SHL", 3, 3>>, <<"G_SHL", "G_SHL", 3, 4>>}
HoistSetup(logic, h) ==
    Plain(<<MkInst(1, "G_IMPLICIT_DEF", <<1>>, <<>>, 0),
            MkInst(2, "G_IMPLICIT_DEF", <<2>>, <<>>, 0),
            WithImm(MkInst(3, "G_CONSTANT", <<3>>, <<>>, 0), 1),
            WithImm(MkInst(4, "G_CONSTANT", <<4>>, <<>>, 0), 2),
            MkInst(5, h[1], <<5>>, IF h[3] = 0 THEN <<1>> ELSE <<1, h[3]>>, 0),
            MkInst(6, h[2], <<6>>, IF h[4] = 0 THEN <<2>> ELSE <<2, h[4]>>, 0),
            MkInst(7, logic, <<7>>, <<5, 6>>, 0),
            MkInst(8, "COPY", <<8>>, <<7>>, 0)>>,
          [r \in 1..8 |-> IF r \in 1..4 \/ h[3] # 0 THEN Scalar(8) ELSE Scalar(16)])
HoistSetups == {HoistSetup(logic, h) : logic \in {"G_OR", "G_XOR"}, h \in HoistShapes}

\* %4 = G_SHL %2, %3 with %2 an extend of the 4-bit %1 to 8 bits and %3 a
\* constant; the oracle's known-zero bits of %1
ShlAmounts == {0, 1, 2, 4}
ShlKnownZeroes == {0, 8, 12, 15}
ShlExtSetup(ext, amt, zero) ==
    [Plain(<<MkInst(1, "G_IMPLICIT_DEF", <<1>>, <<>>, 0),
             MkInst(2, ext, <<2>>, <<1>>, 0),
             WithImm(MkInst(3, "G_CONSTANT", <<3>>, <<>>, 0), amt),
             MkInst(4, "G_SHL", <<4>>, <<2, 3>>, 0),
             MkInst(5, "COPY", <<5>>, <<4>>, 0)>>,
           <<Scalar(4), Scalar(8), Scalar(8), Scalar(8), Scalar(8)>>)
       EXCEPT !.KB = [present |-> TRUE, Zero |-> <<zero, 0, 0, 0, 0>>]]
ShlExtSetups ==
    {ShlExtSetup(ext, amt, zero) :
        ext \in ExtOpcodes, amt \in ShlAmounts, zero \in ShlKnownZeroes}

\* %3 = G_SEXT_INREG %2, width with %2 = G_LOAD %1 of a memory size; the
\* load plain, volatile or atomic; %2 with or without a second user
SextInRegShapes ==
    {[mem |-> m, width |-> w, flag |-> "plain", extra |-> FALSE] :
        m \in {8, 16, 24, 32}, w \in {4, 8, 16, 24}}
    \cup {[mem |-> 32, width |-> w, flag |-> f, extra |-> FALSE] :
            w \in {8, 16}, f \in {"volatile", "atomic"}}
    \cup {[mem |-> 32, width |-> w, flag |-> "plain", extra |-> TRUE] : w \in {8, 16}}
SextInRegSetup(x) ==
    Plain(<<MkInst(1, "G_IMPLICIT_DEF", <<1>>, <<>>, 0),
            [WithMmo(MkInst(2, "G_LOAD", <<2>>, <<1>>, 0), x.mem)
               EXCEPT !.vol = x.flag = "volatile", !.atomic = x.flag = "atomic",
                      !.align = 4]>>
            \o Opt(x.extra, <<MkInst(5, "G_ZEXT", <<4>>, <<2>>, 0)>>)
            \o <<WithImm(MkInst(3, "G_SEXT_INREG", <<3>>, <<2>>, 0), x.width),
                 MkInst(4, "COPY", <<5>>, <<3>>, 0)>>,
          <<Ptr0, Scalar(32), Scalar(32), Scalar(64), Scalar(32)>>)
SextInRegSetups == {SextInRegSetup(x) : x \in SextInRegShapes}

Setups == LoadSetups \cup PhiLoadSetups \cup CopySetups \cup ConcatSetups \cup ShuffleSetups \cup BrSetups
            \cup NotCmpSetups \cup IndexSetups \cup InPlaceSetups \cup MemSetups
            \cup ShiftSetups \cup AndSetups \cup HoistSetups \cup ShlExtSetups
            \cup SextInRegSetups

Init ==
    \E s \in Setups :
        /\ code = s.code
        /\ regTy = s.ty
        /\ regBank = s.bank
        /\ nextReg = Len(s.ty) + 1
        /\ nextId = MaxId(s.code) + 1
        /\ insPt = [bb |-> 0, before |-> 0]
        /\ log = <<>>
        /\ tried = <<>>
        /\ ret = FALSE
        /\ rule = "none"
        /\ target = 0
        /\ info = NoInfo
        /\ mPre = s.code
        /\ mPost = s.code
        /\ LI = s.LI
        /\ legal = s.legal
        /\ MDT = s.MDT
        /\ ForceLegalIndexing = s.FLI
        /\ TLI = s.TLI
        /\ TGT = s.TGT
        /\ MFI = s.MFI
        /\ KB = s.KB
        /\ ubPred = s.ub
        /\ crashed = FALSE
        /\ steps = 0

-----------------------------------------------------------------------------
\* The driver: it calls one entry point on one instruction of the function.

Cur == [code |-> code, ty |-> regTy, bank |-> regBank, nextReg |-> nextReg,
        nextId |-> nextId, ins |-> insPt, log |-> <<>>, tried |-> <<>>,
        crashed |-> FALSE, mfi |-> MFI]

Regs(S) == UNION {SeqToSet(S.code[i].defs) \cup SeqToSet(S.code[i].uses) : i \in DOMAIN S.code}

\* what MRI.getVRegDef asserts and the matchers rely on: no register has two
\* definitions, and every register that is used has one
ValidMIR(S) ==
    \A r \in Regs(S) : Cardinality(DefsOf(S, r)) = 1

\* the driver binds the builder to the instruction before it calls a rule
Entered(id) == setInstr(Cur, id)

IdsOf(opcs) == {code[i].id : i \in {j \in DOMAIN code : code[j].opc \in opcs}}

CanCall == steps < MaxSteps /\ ~crashed /\ ValidMIR(Cur)

Return(name, id, R) ==
    /\ code' = R.S.code
    /\ regTy' = R.S.ty
    /\ regBank' = R.S.bank
    /\ nextReg' = R.S.nextReg
    /\ nextId' = R.S.nextId
    /\ insPt' = R.S.ins
    /\ log' = R.S.log
    /\ tried' = R.S.tried
    /\ crashed' = R.S.crashed
    /\ MFI' = R.S.mfi
    /\ ret' = R.ret
    /\ rule' = name
    /\ target' = id
    /\ info' = R.info
    /\ mPre' = code
    /\ mPost' = R.mPost
    /\ steps' = steps + 1
    /\ UNCHANGED <<LI, legal, MDT, ForceLegalIndexing, TLI, TGT, KB, ubPred>>

TryCombine ==
    /\ CanCall
    /\ \E id \in IdsOf({"COPY"} \cup MemOpcodes) :
          Return("tryCombine", id, tryCombine(Entered(id), id))

TryCombineConcatVectors ==
    /\ CanCall
    /\ \E id \in IdsOf({"G_CONCAT_VECTORS"}) :
          Return("tryCombineConcatVectors", id, tryCombineConcatVectors(Entered(id), id))

TryCombineShuffleVector ==
    /\ CanCall
    /\ \E id \in IdsOf({"G_SHUFFLE_VECTOR"}) :
          Return("tryCombineShuffleVector", id, tryCombineShuffleVector(Entered(id), id))

TryElideBrByInvertingCond ==
    /\ CanCall
    /\ \E id \in IdsOf({"G_BR", "G_BRCOND"}) :
          Return("tryElideBrByInvertingCond", id, tryElideBrByInvertingCond(Entered(id), id))

TryNotCmp ==
    /\ CanCall
    /\ \E id \in IdsOf({"G_XOR"}) : Return("tryNotCmp", id, tryNotCmp(Entered(id), id))

TryPtrAddImmedChain ==
    /\ CanCall
    /\ \E id \in IdsOf({"G_PTR_ADD"}) :
          Return("tryPtrAddImmedChain", id, tryPtrAddImmedChain(Entered(id), id))

TryCombineMulToShl ==
    /\ CanCall
    /\ \E id \in IdsOf({"G_MUL"}) :
          Return("tryCombineMulToShl", id, tryCombineMulToShl(Entered(id), id))

TryCombineExtOfExt ==
    /\ CanCall
    /\ \E id \in IdsOf(ExtOpcodes) :
          Return("tryCombineExtOfExt", id, tryCombineExtOfExt(Entered(id), id))

TryCombineMemCpyFamily ==
    /\ CanCall
    /\ \E id \in IdsOf(MemCpyFamily), MaxLen \in MaxLens :
          Return("tryCombineMemCpyFamily", id, tryCombineMemCpyFamily(Entered(id), id, MaxLen))

TryAndWithTrivialMask ==
    /\ CanCall
    /\ \E id \in IdsOf({"G_AND"}) :
          Return("tryAndWithTrivialMask", id, tryAndWithTrivialMask(Entered(id), id))

Matchers ==
    {<<"matchCombineConcatVectors", "G_CONCAT_VECTORS">>,
     <<"matchCombineShuffleVector", "G_SHUFFLE_VECTOR">>,
     <<"matchHoistLogicOpWithSameOpcodeHands", "G_OR">>,
     <<"matchHoistLogicOpWithSameOpcodeHands", "G_XOR">>}

MatchTwice ==
    /\ CanCall
    /\ \E m \in Matchers : \E id \in IdsOf({m[2]}) :
          Return(m[1], id, matchTwice(Entered(id), id, m[1]))

TryCombineShlOfExtend ==
    /\ CanCall
    /\ \E id \in IdsOf({"G_SHL"}) :
          Return("tryCombineShlOfExtend", id, tryCombineShlOfExtend(Entered(id), id))

TrySextInRegOfLoad ==
    /\ CanCall
    /\ \E id \in IdsOf({"G_SEXT_INREG"}) :
          Return("trySextInRegOfLoad", id, trySextInRegOfLoad(Entered(id), id))

TryCombineShiftToUnmerge ==
    /\ CanCall
    /\ \E id \in IdsOf(ShiftOpcodes), TargetShiftAmount \in TargetShiftSizes :
          Return("tryCombineShiftToUnmerge", id,
                 tryCombineShiftToUnmerge(Entered(id), id, TargetShiftAmount))

TryEraseUndefStore ==
    /\ CanCall
    /\ \E id \in IdsOf({"G_STORE"}) :
          Return("tryEraseUndefStore", id, tryEraseUndefStore(Entered(id), id))

Next ==
    \/ TryCombine
    \/ TryCombineConcatVectors
    \/ TryCombineShuffleVector
    \/ TryElideBrByInvertingCond
    \/ TryNotCmp
    \/ TryPtrAddImmedChain
    \/ TryCombineMulToShl
    \/ TryCombineExtOfExt
    \/ TryEraseUndefStore
    \/ TryCombineMemCpyFamily
    \/ TryCombineShiftToUnmerge
    \/ TryAndWithTrivialMask
    \/ MatchTwice
    \/ TryCombineShlOfExtend
    \/ TrySextInRegOfLoad

Spec == Init /\ [][Next]_vars

-----------------------------------------------------------------------------
\* Properties.  They read the record of the last call: rule, target, ret,
\* tried, info, log, the function before it (mPre) and after it (code).

InPre(id) == \E i \in DOMAIN mPre : mPre[i].id = id
PreInst(id) == mPre[CHOOSE i \in DOMAIN mPre : mPre[i].id = id]
InCode(id) == \E i \in DOMAIN code : code[i].id = id
CodeInst(id) == code[CHOOSE i \in DOMAIN code : code[i].id = id]
UsedRegs == UNION {SeqToSet(code[i].uses) : i \in DOMAIN code}
DefCount(r) == Cardinality({i \in DOMAIN code : \E k \in DOMAIN code[i].defs : code[i].defs[k] = r})
UseCount(r) == Cardinality({i \in DOMAIN code : \E k \in DOMAIN code[i].uses : code[i].uses[k] = r})

\* C1: every matcher is read-only: the instruction list a matcher returns
\* with is the list it was entered with, whether it answers true or false;
\* matchCombineConcatVectors and matchCombineShuffleVector insert nothing.
C1_MatchersReadOnly == mPost = mPre

\* C2: whenever an applier unlinks an instruction, the observer has been
\* told erasingInstr for that instruction earlier in the same call.
C2_ErasingBeforeUnlink ==
    \A i \in DOMAIN log :
        log[i].ev = "unlink" =>
            \E j \in 1..(i - 1) : log[j] = Ev("erasingInstr", log[i].arg)

InPlaceEvents == {"setReg", "setDesc", "setPredicate", "setMBB"}

RECURSIVE CountEv(_, _)
CountEv(e, n) == IF n = 0 THEN 0 ELSE CountEv(e, n - 1) + (IF log[n] = e THEN 1 ELSE 0)

RECURSIVE CountKind(_, _)
CountKind(k, n) == IF n = 0 THEN 0 ELSE CountKind(k, n - 1) + (IF log[n].ev = k THEN 1 ELSE 0)

\* changingInstr(x) notifications not yet answered by changedInstr(x) after
\* the first n events
OpenChanges(x, n) == CountEv(Ev("changingInstr", x), n) - CountEv(Ev("changedInstr", x), n)
OpenAllUses(n) ==
    CountKind("changingAllUsesOfReg", n) - CountKind("finishedChangingAllUsesOfReg", n)

MergeFailures ==
    {i \in 1..(Len(log) - 1) :
        log[i].ev = "changingAllUsesOfReg" /\ log[i + 1].ev = "insert"}

\* C4: when the merge of A's attributes onto B fails, the instruction that is
\* inserted is a copy defining a fresh register typed as A (B is not
\* redefined), and no use of A is left.
C4_MergeFailureFreshCopy ==
    \A i \in MergeFailures :
        LET A == log[i].arg
            c == log[i + 1].arg
        IN  /\ InCode(c)
            /\ CodeInst(c).opc = "COPY"
            /\ regTy[CodeInst(c).defs[1]] = regTy[A]
            /\ DefCount(CodeInst(c).defs[1]) = 1
            /\ UseCount(A) = 0

\* C5: every register an instruction of the function uses has exactly one
\* defining instruction, after every rule application.
C5_UsedRegsHaveOneDef == \A r \in UsedRegs : DefCount(r) = 1

\* C6: tryCombine tries copy elimination, then the extending-load combine,
\* then indexed load/store formation, stops at the first that succeeds, and
\* returns true iff one of them did.
RuleOrder == <<"copy", "extload", "indexed">>

C6_TryCombineOrder ==
    (rule = "tryCombine" /\ ~crashed) =>
        /\ Len(tried) \in 1..3
        /\ \A i \in DOMAIN tried : tried[i].rule = RuleOrder[i]
        /\ \A i \in 1..(Len(tried) - 1) : ~tried[i].res
        /\ ret = tried[Len(tried)].res
        /\ ~ret => Len(tried) = 3

\* the third rule succeeded after the first two had answered false
C6_Witness ==
    /\ rule = "tryCombine"
    /\ ret
    /\ tried = <<[rule |-> "copy", res |-> FALSE], [rule |-> "extload", res |-> FALSE],
                 [rule |-> "indexed", res |-> TRUE]>>

\* The last call was tryCombine on a plain scalar load.
PlainLoadCalled ==
    /\ rule = "tryCombine"
    /\ InPre(target)
    /\ PreInst(target).opc = "G_LOAD"
    /\ isScalar(regTy[PreInst(target).defs[1]])

LoadedReg == PreInst(target).defs[1]
LoadedBits == getSizeInBits(regTy[LoadedReg])

\* the extend instructions that used the loaded value, as records
ExtendUses ==
    IF ~PlainLoadCalled THEN {}
    ELSE {[id |-> mPre[i].id, opc |-> mPre[i].opc,
           bits |-> getSizeInBits(regTy[mPre[i].defs[1]]), reg |-> mPre[i].defs[1]] :
             i \in {j \in DOMAIN mPre :
                       mPre[j].opc \in ExtOpcodes /\ mPre[j].uses = <<LoadedReg>>}}

\* the oracle's answer to the matcher's question about a use: no oracle means legal
Admitted(u) == ~LI \/ <<PreInst(target).opc, u.bits, PreInst(target).mmo>> \in legal

Candidates == {u \in ExtendUses : Admitted(u)}

\* the tie-break: use a is strictly better than use b
Beats(a, b) ==
    \/ a.opc # "G_ANYEXT" /\ b.opc = "G_ANYEXT"
    \/ /\ (a.opc = "G_ANYEXT") = (b.opc = "G_ANYEXT")
       /\ \/ a.bits > b.bits
          \/ a.bits = b.bits /\ a.opc = "G_SEXT" /\ b.opc = "G_ZEXT"

Chosen == CHOOSE u \in ExtendUses : u.id = info.Preferred.MI

LoadedUses == {<<i, k>> \in (DOMAIN mPre) \X (1..3) :
                  k \in DOMAIN mPre[i].uses /\ mPre[i].uses[k] = LoadedReg}

\* the function before the call with the load rewritten to opcode opc and
\* result r, and the instructions in gone removed
Rewritten(opc, r, gone) ==
    SelectSeq([i \in DOMAIN mPre |->
                  IF mPre[i].id = target THEN [mPre[i] EXCEPT !.opc = opc, !.defs = <<r>>]
                  ELSE mPre[i]],
              LAMBDA x : x.id \notin gone)

\* The loaded value has one use, a sign or zero extend that passes the
\* legality test.
OneExtendUse(u) ==
    /\ PlainLoadCalled
    /\ LoadedBits >= 8
    /\ isPowerOf2_32(LoadedBits)
    /\ Cardinality(LoadedUses) = 1
    /\ u \in Candidates
    /\ u.opc \in {"G_SEXT", "G_ZEXT"}
    /\ u.bits > LoadedBits

MixedUses(z, a) ==
    /\ PlainLoadCalled
    /\ LoadedBits >= 8
    /\ isPowerOf2_32(LoadedBits)
    /\ Cardinality(LoadedUses) = 2
    /\ z.opc = "G_ZEXT" /\ z.bits = 32 /\ z \in Candidates
    /\ a.opc = "G_ANYEXT" /\ a.bits = 64

\* C9 as claimed: a load used by a 32-bit zero extend and a 64-bit any-extend
\* becomes one extending load of the larger width (64 bits), and the 32-bit
\* use reads a truncate of it.
C9_MixedUsesWidestWithTrunc ==
    \A z, a \in ExtendUses :
        MixedUses(z, a) =>
            /\ ret
            /\ CodeInst(target).opc \in {"G_SEXTLOAD", "G_ZEXTLOAD"}
            /\ getSizeInBits(regTy[CodeInst(target).defs[1]]) = 64
            /\ \E i \in DOMAIN code : code[i].opc = "G_TRUNC"

\* C9 as the code has it: the load becomes one zero-extending load that
\* defines the zero extend's 32-bit register, the zero extend is gone, the
\* 64-bit any-extend stays and reads the load's 32-bit result, and no
\* truncate is inserted.
C9_MixedUsesDefinedKind ==
    \A z, a \in ExtendUses :
        MixedUses(z, a) =>
            /\ ret
            /\ code = [i \in DOMAIN Rewritten("G_ZEXTLOAD", z.reg, {z.id}) |->
                         LET x == Rewritten("G_ZEXTLOAD", z.reg, {z.id})[i]
                         IN  IF x.id = a.id THEN [x EXCEPT !.uses = <<z.reg>>] ELSE x]
            /\ getSizeInBits(regTy[z.reg]) = 32
            /\ \A i \in DOMAIN code : code[i].opc # "G_TRUNC"

\* the mixed case has been combined, the any-extend sitting in the next block
C9_Witness ==
    /\ ret
    /\ \E z, a \in ExtendUses : MixedUses(z, a) /\ PreInst(a.id).bb = 1 /\ a.id > z.id

\* C10: when an oracle is supplied and the extending-load combine succeeds,
\* the oracle calls the rewritten load (its new opcode, its new result width,
\* its memory descriptor) Legal.
C10_RewrittenLoadIsLegal ==
    (rule = "tryCombine" /\ LI /\ Len(tried) = 2 /\ tried[2].res) =>
        <<CodeInst(target).opc, getSizeInBits(regTy[CodeInst(target).defs[1]]),
          CodeInst(target).mmo>> \in legal

\* The operands that read the loaded value before the call and read the
\* result of a G_TRUNC the call inserted after it.
TruncRegs == {code[j].defs[1] : j \in {m \in DOMAIN code :
                                          code[m].opc = "G_TRUNC" /\ ~InPre(code[m].id)}}
TruncedUses ==
    IF ~(PlainLoadCalled /\ ret) THEN {}
    ELSE {x \in LoadedUses :
            /\ InCode(mPre[x[1]].id)
            /\ CodeInst(mPre[x[1]].id).uses[x[2]] \in TruncRegs}

\* position in the function of the truncate operand x reads
TruncIdx(x) ==
    CHOOSE j \in DOMAIN code :
        /\ code[j].opc = "G_TRUNC"
        /\ code[j].defs[1] = CodeInst(mPre[x[1]].id).uses[x[2]]

AtEndOfBlock(j, bb) ==
    /\ code[j].bb = bb
    /\ j = Len(code) \/ code[j + 1].bb # bb
RightAfterLoad(j) == j > 1 /\ code[j - 1].id = target
AtFirstNonPHI(j, bb) ==
    /\ code[j].bb = bb
    /\ \A m \in DOMAIN code :
          code[m].bb = bb /\ m # j => (code[m].opc = "PHI" <=> m < j)

\* C11 as stated: the truncate for a PHI operand stands at the end of the
\* predecessor block the operand names; the truncate for any other use
\* stands right after the load when the use is in the load's block and at
\* the first non-PHI position of the use's block otherwise.
C11_PhiTruncAtEndOfPredecessor ==
    \A x \in TruncedUses :
        LET u == mPre[x[1]]
            j == TruncIdx(x)
        IN  IF u.opc = "PHI" THEN AtEndOfBlock(j, u.mbbs[x[2]])
            ELSE IF u.bb = PreInst(target).bb THEN RightAfterLoad(j)
            ELSE AtFirstNonPHI(j, u.bb)

\* C11, amended: the truncate stands in the predecessor block a PHI operand
\* names, and in the use's own block for any other use; in that block it
\* stands right after the load when the block is the load's block and at the
\* block's first non-PHI position otherwise.
C11_TruncPlacement ==
    \A x \in TruncedUses :
        LET u == mPre[x[1]]
            j == TruncIdx(x)
            InsertBB == IF u.opc = "PHI" THEN u.mbbs[x[2]] ELSE u.bb
        IN  /\ code[j].bb = InsertBB
            /\ IF InsertBB = PreInst(target).bb THEN RightAfterLoad(j)
               ELSE AtFirstNonPHI(j, InsertBB)

\* a PHI operand on an edge from another block than the load's, and a PHI
\* operand on an edge from the load's block, each got a truncate
C11_Witness ==
    /\ \E x \in TruncedUses :
          mPre[x[1]].opc = "PHI" /\ mPre[x[1]].mbbs[x[2]] # PreInst(target).bb
    /\ \E x \in TruncedUses :
          mPre[x[1]].opc = "PHI" /\ mPre[x[1]].mbbs[x[2]] = PreInst(target).bb

IndexedOpcodes == {IndexedOpcode(o) : o \in MemOpcodes}
PtrAdds(c) == {c[i].id : i \in {j \in DOMAIN c : c[j].opc = "G_PTR_ADD"}}

\* C12: while force-legal-indexing is off, every run of
\* matchCombineIndexedLoadStore has answered false, the function holds no
\* indexed load or store, and a tryCombine call has erased no pointer-add.
C12_FlagOffNoIndexing ==
    ~ForceLegalIndexing =>
        /\ \A i \in DOMAIN tried : tried[i].rule = "indexed" => ~tried[i].res
        /\ \A i \in DOMAIN code : code[i].opc \notin IndexedOpcodes
        /\ rule = "tryCombine" => PtrAdds(mPre) \subseteq PtrAdds(code)

\* with the flag off the matcher has declined an access that the candidate
\* searches accept on a target that calls indexed accesses legal
C12_Witness ==
    /\ ~ForceLegalIndexing
    /\ rule = "tryCombine"
    /\ tried # <<>> /\ tried[Len(tried)] = [rule |-> "indexed", res |-> FALSE]
    /\ InCode(target)
    /\ \/ findPreIndexCandidate(Entered(target), target).ok = "T"
       \/ findPostIndexCandidate(Entered(target), target).ok = "T"

\* The last call ran matchCombineIndexedLoadStore and findPreIndexCandidate
\* accepted the access.
PreIndexAccepted ==
    /\ rule = "tryCombine"
    /\ info.kind = "indexed"
    /\ info.ok = "T"
    /\ info.IsPre

\* the address operand of the access the last call was made on
AddrOfTarget ==
    LET mi == PreInst(target) IN mi.uses[Len(mi.uses)]
AddrIsPtrAdd ==
    \E i \in DOMAIN mPre : mPre[i].opc = "G_PTR_ADD" /\ mPre[i].defs = <<AddrOfTarget>>
\* the operands that read the address before the call
AddrUses == {x \in (DOMAIN mPre) \X (1..3) :
                x[2] \in DOMAIN mPre[x[1]].uses /\ mPre[x[1]].uses[x[2]] = AddrOfTarget}

\* C13 as stated: an access findPreIndexCandidate accepts has an address that
\* a pointer-add defines and that nothing but the access itself uses.
C13_PreIndexAddrHasNoOtherUse ==
    PreIndexAccepted =>
        /\ AddrIsPtrAdd
        /\ \A x \in AddrUses : mPre[x[1]].id = target

\* C13, amended: an access findPreIndexCandidate accepts has an address that
\* a pointer-add defines and that another instruction than the access uses;
\* an address whose only use is the access is never accepted.
C13_PreIndexAddrHasOtherUse ==
    PreIndexAccepted =>
        /\ AddrIsPtrAdd
        /\ \E x \in AddrUses : mPre[x[1]].id # target
        /\ Cardinality(AddrUses) # 1

C13_Witness ==
    /\ PreIndexAccepted
    /\ ret
    /\ info.Addr = AddrOfTarget

\* the answer of a linear scan of the common block
StrictlyBefore(A, B) ==
    IF CodeInst(A).bb = CodeInst(B).bb /\ IdxOf(Cur, A) < IdxOf(Cur, B) THEN "T" ELSE "F"

\* C14: with no dominator tree, dominates(A, B) answers true exactly when A
\* and B are in one block and A stands strictly before B, false otherwise,
\* for every pair of instructions of the function; it never runs into
\* llvm_unreachable, and no call of the helper has aborted there.
C14_LinearScanDominates ==
    ~MDT =>
        /\ \A A, B \in {code[i].id : i \in DOMAIN code} :
              dominates(Cur, A, B) = StrictlyBefore(A, B)
        /\ ~crashed

\* The last call was tryCombineMemCpyFamily.
MemCalled == rule = "tryCombineMemCpyFamily" /\ InPre(target)

\* the length operand of the operation is defined by a G_CONSTANT
LenIsConstant ==
    \E i \in DOMAIN mPre : mPre[i].opc = "G_CONSTANT" /\ mPre[i].defs = <<PreInst(target).uses[3]>>
KnownLength ==
    mPre[CHOOSE i \in DOMAIN mPre : mPre[i].defs = <<PreInst(target).uses[3]>>].imm

\* C15: tryCombineMemCpyFamily on a volatile operation, or on one whose
\* length is not a constant, returns false and leaves the function as it
\* was: the operation is still there and nothing has been inserted.
C15_VolatileOrUnknownLengthKept ==
    MemCalled /\ (PreInst(target).vol \/ ~LenIsConstant) =>
        /\ ~ret
        /\ code = mPre

\* a volatile operation of constant length 9 that the target's policy would
\* allow to lower has been declined
C15_Witness ==
    /\ MemCalled
    /\ PreInst(target).vol
    /\ LenIsConstant /\ KnownLength = 9
    /\ info.MaxLen = 0
    /\ TGT.OptimalTy = Scalar(32) /\ TGT.MaxStores[PreInst(target).opc] = 3
    /\ ~ret

\* The last call reached one of optimizeMemset, optimizeMemcpy and
\* optimizeMemmove: the operation is not volatile and its length is a
\* constant above zero that MaxLen admits.
PlannerReached ==
    /\ MemCalled
    /\ ~PreInst(target).vol
    /\ LenIsConstant /\ KnownLength > 0
    /\ info.MaxLen = 0 \/ KnownLength <= info.MaxLen

\* the planner needed more operations than the target's limit for the kind
PlanExceeded ==
    /\ PlannerReached
    /\ \/ Len(info.MemOps) > TGT.MaxStores[PreInst(target).opc]
       \/ ~info.planned /\ Len(info.MemOps) = TGT.MaxStores[PreInst(target).opc]

\* C16: a call of tryCombineMemCpyFamily whose plan exceeds the target's
\* limit for the kind returns false and changes nothing: the function is the
\* one before the call, the operation included, no instruction has been
\* created and the frame objects keep their alignment.
C16_OverLimitAborts ==
    [][PlanExceeded' =>
          /\ ~ret'
          /\ code' = code
          /\ nextId' = nextId
          /\ MFI' = MFI]_vars

\* the plan for an operation on a stack object whose alignment could have
\* been raised has exceeded the limit
C16_Witness ==
    /\ PlanExceeded
    /\ ~ret
    /\ PreInst(1).opc = "G_FRAME_INDEX"
    /\ ~MFI[0].fixed
    /\ MFI[0].align < 8
    /\ TGT.Realign

\* the stores and loads the last call has built, in layout order, as
\* [off, bytes] records
BuiltAccesses(opc) ==
    LET idx == SetToSortedSeq({i \in DOMAIN code : code[i].opc = opc /\ ~InPre(code[i].id)})
    IN  [k \in DOMAIN idx |-> [off |-> code[idx[k]].off, bytes |-> code[idx[k]].mmo \div 8]]
BuiltStores == BuiltAccesses("G_STORE")
BuiltLoads == BuiltAccesses("G_LOAD")

\* the bytes a sequence of accesses touches, as offsets from the base
BytesOf(acc) == UNION {acc[k].off .. (acc[k].off + acc[k].bytes - 1) : k \in DOMAIN acc}

\* The last call was made, with no cap on the length, on a memset of
\* constant length 9 whose destination is 4-byte aligned and not a stack
\* object, on a target that allows three stores.
Memset9Called ==
    /\ PlannerReached
    /\ PreInst(target).opc = "G_MEMSET"
    /\ KnownLength = 9
    /\ PreInst(target).align = 4
    /\ PreInst(1).opc # "G_FRAME_INDEX"
    /\ TGT.MaxStores["G_MEMSET"] = 3
    /\ info.MaxLen = 0

\* C17: such a memset is lowered to exactly three stores: four bytes at
\* offset 0, four bytes at offset 4, and a final store that overlaps the
\* second one and ends at byte 8; the stores cover exactly bytes 0..8.
C17_Memset9ThreeStores ==
    Memset9Called =>
        /\ ret
        /\ ~InCode(target)
        /\ Len(BuiltStores) = 3
        /\ BuiltStores[1] = [off |-> 0, bytes |-> 4]
        /\ BuiltStores[2] = [off |-> 4, bytes |-> 4]
        /\ BuiltStores[3].off < 8
        /\ BuiltStores[3].off + BuiltStores[3].bytes = 9
        /\ BytesOf(BuiltStores) = 0..8

\* The last call lowered an operation of constant length above zero.
Lowered == PlannerReached /\ ret

\* the offset from base that the address operand of instruction mi stands
\* for: 0 for base itself, c for G_PTR_ADD base, (G_CONSTANT c), -1 otherwise
AddrOffset(mi, base) ==
    LET ptr == mi.uses[Len(mi.uses)]
        adds == {i \in DOMAIN code : code[i].opc = "G_PTR_ADD" /\ code[i].defs = <<ptr>>
                                      /\ code[i].uses[1] = base}
        add == code[CHOOSE i \in adds : TRUE]
        csts == {i \in DOMAIN code : code[i].opc = "G_CONSTANT"
                                      /\ code[i].defs = <<add.uses[2]>>}
    IN  IF ptr = base THEN 0
        ELSE IF adds = {} \/ csts = {} THEN -1
        ELSE code[CHOOSE i \in csts : TRUE].imm

\* every access of kind opc the call has built goes to base + its offset
AddressedFrom(opc, base) ==
    \A i \in DOMAIN code :
        code[i].opc = opc /\ ~InPre(code[i].id) => AddrOffset(code[i], base) = code[i].off

\* C18: after a successful lowering of an operation of constant length
\* L > 0 the stores go to the destination plus their offsets and write
\* exactly the bytes 0 .. L-1 (none below 0, none at L or beyond, none left
\* out); for a memcpy and a memmove the loads read exactly the bytes
\* 0 .. L-1 of the source, and a memset builds no load.
C18_ExactCover ==
    Lowered =>
        /\ AddressedFrom("G_STORE", PreInst(target).uses[1])
        /\ BytesOf(BuiltStores) = 0 .. (KnownLength - 1)
        /\ IF PreInst(target).opc = "G_MEMSET" THEN BuiltLoads = <<>>
           ELSE /\ AddressedFrom("G_LOAD", PreInst(target).uses[2])
                /\ BytesOf(BuiltLoads) = 0 .. (KnownLength - 1)
                /\ Len(BuiltLoads) = Len(BuiltStores)

\* a memcpy has been lowered with a final chunk that overlaps the one before
C18_Witness ==
    /\ Lowered
    /\ PreInst(target).opc = "G_MEMCPY"
    /\ Len(BuiltStores) > 1
    /\ LET n == Len(BuiltStores)
       IN  /\ BuiltStores[n].off < BuiltStores[n - 1].off + BuiltStores[n - 1].bytes
           /\ BuiltLoads[n].off = BuiltStores[n].off
           /\ BuiltStores[n].off + BuiltStores[n].bytes = KnownLength

\* positions of the loads and stores the last call has built
BuiltAt(opc) == {i \in DOMAIN code : code[i].opc = opc /\ ~InPre(code[i].id)}

\* Running the built loads and stores, in layout order from position i, on
\* a memory mem (address -> byte) with the source at address src and the
\* destination at address dst; vals maps a register to the bytes loaded.
RECURSIVE RunBuilt(_, _, _, _, _)
RunBuilt(i, mem, vals, src, dst) ==
    IF i > Len(code) THEN mem
    ELSE
      LET mi == code[i]
          n == mi.mmo \div 8
      IN  IF i \in BuiltAt("G_LOAD")
          THEN RunBuilt(i + 1, mem,
                        (mi.defs[1] :> [j \in 0..(n - 1) |-> mem[src + mi.off + j]]) @@ vals,
                        src, dst)
          ELSE IF i \in BuiltAt("G_STORE")
          THEN RunBuilt(i + 1,
                        [a \in DOMAIN mem |->
                            IF a \in (dst + mi.off)..(dst + mi.off + n - 1)
                            THEN vals[mi.uses[1]][a - dst - mi.off] ELSE mem[a]],
                        vals, src, dst)
          ELSE RunBuilt(i + 1, mem, vals, src, dst)

\* source at address 3, destination shifted against it by up to three bytes
\* either way; every byte of the memory holds its own address
Overlaps == {[src |-> 3, dst |-> 3 + d] : d \in -3..3}
MovedRight(o) ==
    LET mem0 == [a \in 0..(6 + KnownLength) |-> a]
        mem1 == RunBuilt(1, mem0, <<>>, o.src, o.dst)
    IN  \A k \in 0..(KnownLength - 1) : mem1[o.dst + k] = mem0[o.src + k]

\* C19: in the sequence built for a memmove every load stands before every
\* store, and running the sequence on source and destination ranges that
\* overlap leaves the source's original bytes in the destination.
C19_MemmoveLoadsBeforeStores ==
    Lowered /\ PreInst(target).opc = "G_MEMMOVE" =>
        /\ \A l \in BuiltAt("G_LOAD"), s \in BuiltAt("G_STORE") : l < s
        /\ \A o \in Overlaps : MovedRight(o)

\* a memmove has been lowered to more than one load and store
C19_Witness ==
    /\ Lowered
    /\ PreInst(target).opc = "G_MEMMOVE"
    /\ Len(BuiltLoads) > 1
    /\ Len(BuiltStores) = Len(BuiltLoads)

\* C20: a call of tryCombineMemCpyFamily never lowers the alignment of a
\* frame object; it changes it only for a destination that is a non-fixed
\* stack object, and on a target that does not realign the stack a raised
\* alignment does not exceed the natural stack alignment.
C20_SlotAlignmentWithinStack ==
    [][rule' = "tryCombineMemCpyFamily" =>
          \A fi \in DOMAIN MFI :
              /\ MFI'[fi].align >= MFI[fi].align
              /\ MFI'[fi].align # MFI[fi].align =>
                    /\ ~MFI[fi].fixed
                    /\ ~TGT.Realign /\ TGT.StackAlign # 0 =>
                          MFI'[fi].align <= TGT.StackAlign]_vars

\* The value of register r of function c when the registers no modelled
\* operation defines hold x: the meaning of the generic opcodes on unsigned
\* numbers of the register's width.
DefIdx(c, r) == CHOOSE i \in DOMAIN c : \E k \in DOMAIN c[i].defs : c[i].defs[k] = r
DefPos(mi, r) == CHOOSE k \in DOMAIN mi.defs : mi.defs[k] = r
Signed(v, bits) == IF v >= Pow2(bits - 1) THEN v - Pow2(bits) ELSE v
RECURSIVE ValueOf(_, _, _, _)
RECURSIVE MergedValue(_, _, _, _, _)
MergedValue(c, ty, ops, i, x) ==
    IF i > Len(ops) THEN 0
    ELSE ValueOf(c, ty, ops[i], x)
         + Pow2(getSizeInBits(ty[ops[i]])) * MergedValue(c, ty, ops, i + 1, x)
ValueOf(c, ty, r, x) ==
    LET mi == c[DefIdx(c, r)]
        bits == getSizeInBits(ty[r])
        a == ValueOf(c, ty, mi.uses[1], x)
        b == ValueOf(c, ty, mi.uses[2], x)
        srcBits == getSizeInBits(ty[mi.uses[1]])
    IN  CASE mi.opc = "G_CONSTANT" -> mi.imm % Pow2(bits)
          [] mi.opc = "COPY" -> a
          [] mi.opc = "G_SHL" -> IF b >= bits THEN 0 ELSE (a * Pow2(b)) % Pow2(bits)
          [] mi.opc = "G_LSHR" -> IF b >= bits THEN 0 ELSE a \div Pow2(b)
          [] mi.opc = "G_ASHR" ->
                (Signed(a, bits) \div Pow2(IF b >= bits THEN bits - 1 ELSE b)) % Pow2(bits)
          [] mi.opc = "G_UNMERGE_VALUES" ->
                (a \div Pow2(bits * (DefPos(mi, r) - 1))) % Pow2(bits)
          [] mi.opc = "G_MERGE_VALUES" -> MergedValue(c, ty, mi.uses, 1, x)
          [] mi.opc = "G_ZEXT" -> a
          [] mi.opc = "G_SEXT" -> Signed(a, srcBits) % Pow2(bits)
          [] mi.opc = "G_TRUNC" -> a % Pow2(bits)
          [] OTHER -> x % Pow2(bits)

ShiftNarrowed ==
    /\ rule = "tryCombineShiftToUnmerge" /\ ret /\ InPre(target)
    /\ getSizeInBits(regTy[PreInst(target).defs[1]]) % 2 = 0

ShiftAmount == getConstantVRegVal([code |-> mPre], PreInst(target).uses[2]).Value

OpcodeCount(c, opc) == Cardinality({i \in DOMAIN c : c[i].opc = opc})

\* C21: when tryCombineShiftToUnmerge has narrowed a shift of an even width W
\* by a constant C with W/2 <= C < W, the register the shift defined holds, for
\* every value of the shifted register, the value the shift gave it; and for a
\* G_LSHR the function holds one G_LSHR less when C = W/2 and as many as
\* before otherwise (the wide one is gone, one narrow one was built).
C21_NarrowedShiftSameValue ==
    ShiftNarrowed =>
        LET Dst == PreInst(target).defs[1]
            W == getSizeInBits(regTy[Dst])
        IN  /\ ShiftAmount >= W \div 2 /\ ShiftAmount < W
            /\ \A x \in 0..(Pow2(W) - 1) :
                  ValueOf(code, regTy, Dst, x) = ValueOf(mPre, regTy, Dst, x)
            /\ PreInst(target).opc = "G_LSHR" =>
                  OpcodeCount(code, "G_LSHR") =
                      OpcodeCount(mPre, "G_LSHR") - (IF ShiftAmount = W \div 2 THEN 1 ELSE 0)

\* all three kinds of shift are narrowed, with and without a narrow shift
C21_Witness ==
    /\ ShiftNarrowed
    /\ PreInst(target).opc = "G_ASHR"
    /\ getSizeInBits(regTy[PreInst(target).defs[1]]) = 8
    /\ ShiftAmount = 5
    /\ OpcodeCount(code, "G_ASHR") = 2

-----------------------------------------------------------------------------
\* The AND one call of the mask rule was made on, as it stood before the call.
AndCalled == rule = "tryAndWithTrivialMask" /\ \E i \in DOMAIN mPre : mPre[i].id = target
AndBefore == PreInst(target)
AndLeft == AndBefore.uses[1]
AndBits == getSizeInBits(regTy[AndBefore.defs[1]])
AndMaskDef == CHOOSE i \in DOMAIN mPre : mPre[i].defs = <<AndBefore.uses[2]>>
AndMask == APIntOf(AndBits, mPre[AndMaskDef].imm)
AndOnMask ==
    /\ AndCalled
    /\ ~isVector(regTy[AndBefore.defs[1]])
    /\ mPre[AndMaskDef].opc = "G_CONSTANT"
    /\ isMask(AndMask)
\* the oracle reports every bit of the left operand outside the mask as zero
OracleClearsOutside ==
    /\ KB.present
    /\ \A i \in 0..(AndBits - 1) :
          Bit(AndMask, i) = 0 => Bit(getKnownZeroes(AndLeft), i) = 1
\* a value of the left operand that agrees with the oracle's facts
ConsistentValues ==
    {x \in 0..(Pow2(AndBits) - 1) :
        \A i \in 0..(AndBits - 1) : Bit(getKnownZeroes(AndLeft), i) = 1 => Bit(x, i) = 0}
OutsideMask(x) == \E i \in 0..(AndBits - 1) : Bit(AndMask, i) = 0 /\ Bit(x, i) = 1
AndReplaced ==
    /\ \A i \in DOMAIN code : code[i].id # target
    /\ \A i \in DOMAIN mPre :
          mPre[i].id # target =>
             \E j \in DOMAIN code :
                code[j] = [mPre[i] EXCEPT
                             !.uses = ReplaceInSeq(@, AndBefore.defs[1], AndLeft)]
AndReplaceable ==
    /\ regTy[AndBefore.defs[1]] = regTy[AndLeft]
    /\ (regBank[AndBefore.defs[1]] = 0 \/ regBank[AndBefore.defs[1]] = regBank[AndLeft])

\* C22 as stated: a scalar AND with a constant mask 0...01...1 is matched (and
\* replaced by its left operand) if and only if the oracle reports all bits
\* of the left operand outside the mask as zero.
C22_MatchesIffOracleClears ==
    AndOnMask => (ret <=> OracleClearsOutside)

\* C22, amended: a scalar AND with a constant mask 0...01...1 is matched, and
\* replaced by its left operand, if and only if its result register can be
\* replaced by the left operand (same type, no bank or the same bank) and the
\* oracle reports all bits of the left operand outside the mask as zero; it is
\* never matched when a value of the left operand consistent with the
\* oracle's facts has a bit set outside the mask.
C22_MatchesIffReplaceableAndOracleClears ==
    AndOnMask =>
        /\ ret <=> (AndReplaceable /\ OracleClearsOutside)
        /\ ret => AndReplaced /\ ~crashed
        /\ ret => \A x \in ConsistentValues : ~OutsideMask(x)
        /\ (\E x \in ConsistentValues : OutsideMask(x)) => ~ret /\ code = mPre

C22_Witness ==
    /\ AndOnMask
    /\ ret
    /\ AndMask = 3
    /\ getKnownZeroes(AndLeft) = 12
    /\ regBank[AndLeft] = 1

-----------------------------------------------------------------------------
\* Control flow out of a block, for given values of the registers.
CmpValues == {0 - 1, 0, 1}
CmpEnvs(c) == [UNION {SeqToSet(c[i].defs) : i \in DOMAIN c} -> CmpValues]

\* ICmpInst::compare for the predicates in use
EvalPred(p, a, b) ==
    CASE p = "eq" -> a = b [] p = "ne" -> a # b
      [] p = "slt" -> a < b [] p = "sge" -> a >= b
      [] p = "sgt" -> a > b [] p = "sle" -> a <= b

\* is the condition register r true: a comparison's result is computed from
\* its operands, any other register is an input
CondTrue(c, r, env) ==
    LET ds == {i \in DOMAIN c : r \in SeqToSet(c[i].defs)}
        d == CHOOSE i \in ds : TRUE
    IN  IF ds # {} /\ c[d].opc = "G_ICMP"
        THEN EvalPred(c[d].pred, env[c[d].uses[1]], env[c[d].uses[2]])
        ELSE env[r] # 0

\* the block control goes to from instruction i of block bb on: the target of
\* the first branch taken, the layout successor when none is
RECURSIVE BlockReached(_, _, _, _)
BlockReached(c, i, bb, env) ==
    IF i > Len(c) \/ c[i].bb # bb THEN bb + 1
    ELSE IF c[i].opc = "G_BR" THEN c[i].mbbs[1]
    ELSE IF c[i].opc = "G_BRCOND" /\ CondTrue(c, c[i].uses[1], env) THEN c[i].mbbs[1]
    ELSE BlockReached(c, i + 1, bb, env)

BlockExit(c, bb, env) ==
    BlockReached(c, CHOOSE i \in DOMAIN c : c[i].bb = bb /\ \A j \in 1..(i - 1) : c[j].bb # bb,
                 bb, env)

BrElided == rule = "tryElideBrByInvertingCond" /\ ret

\* C23: when the branch rule matches an unconditional branch and rewrites the
\* block, then for every outcome of the comparison the block that control
\* reaches from the rewritten block is the block it reached before.
C23_ElideBrPreservesControlFlow ==
    BrElided =>
        \A env \in CmpEnvs(mPre) :
            BlockExit(code, PreInst(target).bb, env) = BlockExit(mPre, PreInst(target).bb, env)

C23_Witness ==
    /\ BrElided
    /\ ~crashed
    /\ \E e1, e2 \in CmpEnvs(mPre) :
          /\ BlockExit(mPre, PreInst(target).bb, e1) = 1
          /\ BlockExit(mPre, PreInst(target).bb, e2) = 2
          /\ BlockExit(code, PreInst(target).bb, e1) = 1
          /\ BlockExit(code, PreInst(target).bb, e2) = 2

-----------------------------------------------------------------------------
MatchedTwiceCall == rule \in {m[1] : m \in Matchers}

\* C24: a matcher called twice on the same instruction, no applier run in
\* between, returns the same boolean and the same match-info both times.
C24_MatchTwiceSameResult ==
    MatchedTwiceCall => info.first = info.second

-----------------------------------------------------------------------------
\* the instruction list with instruction id taken out
Without(c, id) == SelectSeq(c, LAMBDA mi : mi.id # id)

ZeroLengthCalled ==
    /\ MemCalled
    /\ ~PreInst(target).vol
    /\ LenIsConstant /\ KnownLength = 0

\* C25: a non-volatile memset, memcpy or memmove of constant length zero is
\* erased with no replacement: the call returns true and the function is what
\* it was with the operation taken out (no load, store or address computation
\* added), whatever the MaxLen argument and the target's limits are.
C25_ZeroLengthErased ==
    ZeroLengthCalled =>
        /\ ret
        /\ ~crashed
        /\ code = Without(mPre, target)

\* a zero-length memcpy erased under a length limit and on a target that
\* allows no store
C25_Witness ==
    /\ ZeroLengthCalled
    /\ PreInst(target).opc = "G_MEMCPY"
    /\ info.MaxLen = 8
    /\ TGT.MaxStores["G_MEMCPY"] = 0
    /\ ret
    /\ Len(code) = Len(mPre) - 1

-----------------------------------------------------------------------------
\* Values bit by bit, each bit 0, 1 or Undefined.
Undefined == 0 - 1
AllUndefined(bits) == [i \in 0..(bits - 1) |-> Undefined]
IsDefined(v) == \A i \in DOMAIN v : v[i] # Undefined
\* the number a fully defined bit vector stands for
RECURSIVE NumberOf(_, _)
NumberOf(v, bits) == IF bits = 0 THEN 0 ELSE v[bits - 1] * Pow2(bits - 1) + NumberOf(v, bits - 1)

\* the bits of register r in function c when every input register has the
\* bits of the number x: a shift by its width or more, or by an undefined
\* amount, defines no bit; an any-extend defines the low bits only
RECURSIVE BitsOf(_, _, _, _)
BitsOf(c, ty, r, x) ==
    LET mi == c[DefIdx(c, r)]
        bits == getSizeInBits(ty[r])
        srcBits == getSizeInBits(ty[mi.uses[1]])
        amtBits == getSizeInBits(ty[mi.uses[2]])
        Shl(a, b) ==
            IF ~IsDefined(b) THEN AllUndefined(bits)
            ELSE IF NumberOf(b, amtBits) >= bits THEN AllUndefined(bits)
            ELSE [i \in 0..(bits - 1) |->
                    IF i < NumberOf(b, amtBits) THEN 0 ELSE a[i - NumberOf(b, amtBits)]]
        Ext(a, fill) == [i \in 0..(bits - 1) |-> IF i < srcBits THEN a[i] ELSE fill]
        SExt(a) == Ext(a, a[srcBits - 1])
    IN  CASE mi.opc = "G_CONSTANT" -> [i \in 0..(bits - 1) |-> Bit(mi.imm % Pow2(bits), i)]
          [] mi.opc = "COPY" -> BitsOf(c, ty, mi.uses[1], x)
          [] mi.opc = "G_SHL" -> Shl(BitsOf(c, ty, mi.uses[1], x), BitsOf(c, ty, mi.uses[2], x))
          [] mi.opc = "G_ZEXT" -> Ext(BitsOf(c, ty, mi.uses[1], x), 0)
          [] mi.opc = "G_ANYEXT" -> Ext(BitsOf(c, ty, mi.uses[1], x), Undefined)
          [] mi.opc = "G_SEXT" -> SExt(BitsOf(c, ty, mi.uses[1], x))
          [] OTHER -> [i \in 0..(bits - 1) |-> Bit(x % Pow2(bits), i)]

ShlOfExtendDone == rule = "tryCombineShlOfExtend" /\ ret
\* the values of the extended register that agree with the oracle's facts
ShlSrcValues ==
    {x \in 0..(Pow2(getSizeInBits(regTy[info.Reg])) - 1) :
        \A i \in 0..(getSizeInBits(regTy[info.Reg]) - 1) :
            Bit(getKnownZeroes(info.Reg), i) = 1 => Bit(x, i) = 0}
ShlDst == PreInst(target).defs[1]
SameWhereDefined(orig, repl) ==
    \A i \in DOMAIN orig : orig[i] # Undefined => repl[i] = orig[i]

\* C26: whenever the rule matches a left shift by a constant c of an any-,
\* zero- or sign-extend of x, the zero-extended narrow shift that replaces it
\* has, for every value of x consistent with the oracle's known-zero bits, the
\* same value as the original in every bit the original defines.
C26_ShlOfExtendSameDefinedBits ==
    ShlOfExtendDone =>
        \A x \in ShlSrcValues :
            SameWhereDefined(BitsOf(mPre, regTy, ShlDst, x), BitsOf(code, regTy, ShlDst, x))

-----------------------------------------------------------------------------
\* The indexed instruction the last call has built.
IndexedFormed ==
    /\ rule = "tryCombine"
    /\ info.kind = "indexed"
    /\ info.ok = "T"
    /\ ret /\ ~crashed
NewIndexed == CHOOSE i \in DOMAIN code : code[i].opc \in IndexedOpcodes /\ info.Addr \in SeqToSet(code[i].defs)
\* instruction i of the function stands before instruction j: an earlier block,
\* or earlier in the same block
Before(i, j) == code[i].bb < code[j].bb \/ (code[i].bb = code[j].bb /\ i < j)
DefinedBefore(r, j) == \E i \in DOMAIN code : r \in SeqToSet(code[i].defs) /\ Before(i, j)

\* C27: after an indexed load or store has been formed, pre-index or
\* post-index, the new instruction stands before every other use of the
\* address register it defines, does not itself use that register, and the
\* definitions of its base and offset operands stand before it.
C27_IndexedKeepsDefsBeforeUses ==
    IndexedFormed =>
        /\ \A j \in DOMAIN code :
              (j # NewIndexed /\ info.Addr \in SeqToSet(code[j].uses)) => Before(NewIndexed, j)
        /\ info.Addr \notin SeqToSet(code[NewIndexed].uses)
        /\ DefinedBefore(info.Base, NewIndexed)
        /\ DefinedBefore(info.Offset, NewIndexed)

-----------------------------------------------------------------------------
\* The load behind the sign extension the last call was made on.
SextInRegCalled == rule = "trySextInRegOfLoad" /\ InPre(target)
SextSrcLoads == {i \in DOMAIN mPre : mPre[i].opc = "G_LOAD" /\ mPre[i].defs = <<PreInst(target).uses[1]>>}
SextSrcLoad == mPre[CHOOSE i \in SextSrcLoads : TRUE]
SextWidth == PreInst(target).imm
UsersBefore(r) == {i \in DOMAIN mPre : r \in SeqToSet(mPre[i].uses)}
NewSextLoads ==
    {i \in DOMAIN code : code[i].opc = "G_SEXTLOAD" /\ \A j \in DOMAIN mPre : mPre[j].id # code[i].id}

\* C28: the sign-extending load the rule builds reads no more memory than the
\* load it stands for: its size is the smaller of the sign extension's width
\* and the load's size, a power of two of at least 8 bits; and the rule does
\* nothing when the load is atomic or volatile or its result has more than
\* one user.
C28_SextLoadNeverWider ==
    SextInRegCalled /\ SextSrcLoads # {} =>
        /\ ret => /\ Cardinality(NewSextLoads) = 1
                  /\ \A i \in NewSextLoads :
                        /\ code[i].mmo = (IF SextWidth < SextSrcLoad.mmo THEN SextWidth
                                          ELSE SextSrcLoad.mmo)
                        /\ code[i].mmo <= SextSrcLoad.mmo
                        /\ code[i].mmo >= 8
                        /\ isPowerOf2_32(code[i].mmo)
                        /\ code[i].uses = SextSrcLoad.uses
        /\ (SextSrcLoad.atomic \/ SextSrcLoad.vol
               \/ Cardinality(UsersBefore(SextSrcLoad.defs[1])) > 1)
              => ~ret /\ code = mPre

\* a 32-bit load narrowed to a sign-extending load of 8 bits
C28_Witness ==
    /\ SextInRegCalled /\ SextSrcLoads # {}
    /\ ret
    /\ SextSrcLoad.mmo = 32
    /\ SextWidth = 8
    /\ \E i \in NewSextLoads : code[i].mmo = 8

-----------------------------------------------------------------------------
\* The choice of the extending-load matcher under every order of the uses.
LoadRuleRan ==
    /\ rule = "tryCombine"
    /\ InPre(target)
    /\ PreInst(target).opc \in LoadOpcodes
    /\ info.kind = "extload"
BeforeCall == [Cur EXCEPT !.code = mPre]
LoadUsers == use_nodbg_instructions(BeforeCall, PreInst(target).defs[1])
Orders(n) == {p \in [1..n -> 1..n] : \A i, j \in 1..n : p[i] = p[j] => i = j}
StartOpcode ==
    IF PreInst(target).opc = "G_LOAD" THEN "G_ANYEXT"
    ELSE IF PreInst(target).opc = "G_SEXTLOAD" THEN "G_SEXT" ELSE "G_ZEXT"
SelectedOf(P) == <<P.MI # 0, P.ExtendOpcode, P.Ty>>
SelectedIn(users) ==
    SelectedOf(PreferredOver(BeforeCall, target, users, 1,
                             PreferredTuple(LLTNone, StartOpcode, 0)))

\* C29: the extend kind and width the extending-load matcher selects are the
\* same for every order in which the uses of the loaded register are visited,
\* for plain loads and for sign- or zero-extending loads, and for an
\* extending load a use of the other extend kind is never selected.
C29_ChoiceIndependentOfUseOrder ==
    LoadRuleRan =>
        /\ ret => SelectedOf(info.Preferred) = SelectedIn(LoadUsers)
        /\ \A p \in Orders(Len(LoadUsers)) :
              SelectedIn([i \in 1..Len(LoadUsers) |-> LoadUsers[p[i]]]) = SelectedIn(LoadUsers)
        /\ (ret /\ PreInst(target).opc = "G_SEXTLOAD") => info.Preferred.ExtendOpcode # "G_ZEXT"
        /\ (ret /\ PreInst(target).opc = "G_ZEXTLOAD") => info.Preferred.ExtendOpcode # "G_SEXT"

-----------------------------------------------------------------------------
\* C30: in every plan returned by findGISelOptimalMemOpLowering a chunk larger
\* than the bytes still remaining occurs only as the last chunk, never as the
\* first, and only when overlap is allowed and the target reports the
\* misaligned access as allowed and fast; the assertion of the memset store
\* loop therefore never fails.

\* a plan was returned to the caller of the last call
PlanReturned == PlannerReached /\ info.kind = "mem" /\ info.planned

\* the bytes still to be covered before chunk k of the plan
RECURSIVE RemainingBefore(_, _, _)
RemainingBefore(MemOps, Size, k) ==
    IF k = 1 THEN Size
    ELSE LET Rest == RemainingBefore(MemOps, Size, k - 1)
             TySize == getSizeInBytes(MemOps[k - 1])
         IN  IF TySize > Rest THEN 0 ELSE Rest - TySize

OverlappingChunk(k) ==
    getSizeInBytes(info.MemOps[k]) > RemainingBefore(info.MemOps, KnownLength, k)

====
